---- MODULE Spec2Model ----
(***************************************************************************)
(* Scheduling engine of cclaw: the cron scheduler loop (cron.py), the      *)
(* heartbeat scheduler loop (heartbeat.py), the job store they read and    *)
(* the executions they start (claude_runner.py).                           *)
(*                                                                         *)
(* Time is counted in ticks of CRON_CHECK_INTERVAL_SECONDS (30 s); a       *)
(* minute is TicksPerMinute ticks.  The body of one scheduler cycle has no *)
(* await and takes far less than a tick, so the store edits of the command *)
(* line are taken while the loop is outside its for loop; the clock may    *)
(* still advance between two reads of one cycle.                           *)
(***************************************************************************)
EXTENDS Integers, Sequences, FiniteSets, TLC

VARIABLES
    now,             \* wall clock, in ticks
    stop_event,      \* asyncio.Event shared by the loops of one bot
    store,           \* cron.yaml: the ordered list of stored jobs
    cronPc,          \* position of run_cron_scheduler
    jobs,            \* the list loaded by the current cycle
    idx,             \* position of the for loop in jobs
    cycleStart,      \* tick at which the current cycle loaded jobs
    last_run_times,  \* FireGuard: job name -> tick of the last fire, or None
    cronWaitStart,   \* tick at which the current wait began
    inFlight,        \* job name -> number of execute_cron_job tasks running
    cronFires,       \* history: job name -> minute of its latest cron
                     \* dispatch and number of cron dispatches in that minute
    oneShotFires,    \* history: job name -> one-shot dispatches
    lastStep,        \* history: what the last loop step did
    hbStore,         \* bot.yaml: the stored heartbeat section
    hbBoot,          \* bot_config handed to run_heartbeat_scheduler
    hbPc,            \* position of run_heartbeat_scheduler
    interval_seconds,\* local variable of the loop: the next wait
    active_hours,    \* local variable of the loop: window read at start
    current_heartbeat_config, \* local variable: the section read by the
                     \* cycle, held while its execution is awaited
    hbWaitStart,     \* tick at which the current wait began
    hbRuns,          \* history: heartbeat executions started
    hbLast,          \* history: what the last heartbeat step did
    botPc,           \* position of _run_bots (bot_manager.py)
    fnIn,            \* arguments of the function under evaluation
    fnOut,           \* its result
    msgPc,           \* handlers.py: update -> position of its handler
    msgLocal,        \* update -> locals of its handler (resume_session,
                     \* number of Executor calls made)
    lockHolder,      \* SESSION_LOCKS[key]: the handler that holds it, or 0
    lockWaiters,     \* SESSION_LOCKS[key]: the handlers waiting, in order
    claude_session_id, \* the stored Claude session id of the chat, or 0
    uuidCount,       \* number of uuid4() values drawn
    conversation,    \* the conversation file of the chat
    session_dir,     \* does the session directory exist
    arrivals,        \* history: updates in the order of their arrival
    entered,         \* history: updates in the order they took the lock
    calls,           \* history: the Executor calls and how they ended
    running_processes, \* claude_runner: the process registered under one key
    procs,           \* the process of each call: not started, running, or how it ended
    regPc,           \* where each call of run_claude with that key stands
    pending,         \* cron.yaml as loaded by each process that is updating it
    opLog            \* history: the store operations that have returned

hbVars == <<hbStore, hbBoot, hbPc, interval_seconds, active_hours,
            current_heartbeat_config, hbWaitStart, hbRuns, hbLast>>

cronVars == <<store, cronPc, jobs, idx, cycleStart, last_run_times, cronWaitStart,
              inFlight, cronFires, oneShotFires, lastStep>>

\* One chat of the bot: its handlers, lock, session id and conversation.
chatVars == <<msgPc, msgLocal, lockHolder, lockWaiters, claude_session_id,
              uuidCount, conversation, session_dir, arrivals, entered, calls>>

\* claude_runner.py: the calls made with one session key.
regVars == <<running_processes, procs, regPc>>

\* The processes that update the cron.yaml of one bot.
raceVars == <<pending, opLog>>

extVars == <<chatVars, regVars, raceVars>>

\* The process that runs the bot, and the evaluation of one function.
auxVars == <<botPc, fnIn, fnOut, extVars>>

----------------------------------------------------------------------------
(* Bounds *)

MaxTime == 2
MaxJobs == 2
MaxInFlight == 2
MaxMinuteOffset == 1
LastDay == 58

\* The store operations followed in the interleaving of two processes.
MaxOps == 4

(* Program constants *)

TicksPerMinute == 2
DayMinutes == 1440
CRON_CHECK_INTERVAL_TICKS == 1

Names == {"a", "b"}
None == -1

\* No call in progress: the value of a local or an argument that is not set.
NoCall == [fn |-> "none"]

Min(S) == CHOOSE x \in S : \A y \in S : x <= y

----------------------------------------------------------------------------
(* Stored values *)

\* The `at` value of a job as yaml.safe_load returns it.
AtAbsent == [kind |-> "absent", t |-> 0]
AtIso(t) == [kind |-> "iso", t |-> t]            \* ISO-8601 string of tick t
AtRelative(m) == [kind |-> "relative", t |-> m]  \* "<m>m"
AtGarbage == [kind |-> "garbage", t |-> 0]       \* a string that is neither
AtDatetime == [kind |-> "datetime", t |-> 0]     \* unquoted timestamp: not a str

\* A field of a cron expression: the values lo, lo + step, ... up to hi
\* ("*" is the whole range of the field, "*/15" the range with step 15, "9-17"
\* a range, "6" the range 6-6).
Field(lo, hi, step) == [lo |-> lo, hi |-> hi, step |-> step]

\* The `schedule` value: a 5-field cron expression, or no schedule key.
Cron(mi, h, dom, mon, dow) ==
    [kind |-> "cron", minute |-> mi, hour |-> h, day |-> dom, month |-> mon,
     weekday |-> dow]

SchedAbsent == [kind |-> "absent"]

\* A schedule text croniter does not accept, such as "every day".
SchedInvalid == [kind |-> "invalid"]

EveryMinute == Cron(Field(0, 59, 1), Field(0, 23, 1), Field(1, 31, 1),
                    Field(1, 12, 1), Field(0, 6, 1))

\* "<mi> <h> * * *"
DailyAt(h, mi) == [EveryMinute EXCEPT !.minute = Field(mi, mi, 1),
                                      !.hour = Field(h, h, 1)]

Job(n, e, at, sched, tz, del) ==
    [name |-> n, enabled |-> e, at |-> at, schedule |-> sched,
     timezone |-> tz, delete_after_run |-> del]

\* The jobs the command line offers to add_cron_job.
NewJobs ==
    { Job("a", TRUE, AtAbsent, EveryMinute, "", FALSE),
      Job("b", TRUE, AtAbsent, DailyAt(6, 0), "Asia/Seoul", FALSE),
      Job("a", TRUE, AtIso(0), SchedAbsent, "", TRUE),
      Job("b", TRUE, AtIso(0), SchedAbsent, "", FALSE),
      Job("b", TRUE, AtRelative(1), SchedAbsent, "", TRUE),
      Job("a", TRUE, AtDatetime, SchedAbsent, "", FALSE) }

----------------------------------------------------------------------------
(* cron.py: pure helpers *)

\* The zone names of the tz database that the model knows.
KnownZones == {"UTC", "Asia/Seoul", "America/New_York"}

\* An unknown name resolved to the zone of the host.
resolve_job_timezone_HostZone(job) ==
    IF job.timezone \in KnownZones THEN job.timezone ELSE "Asia/Seoul"

\* resolve_job_timezone: the zone of the name; UTC when the name is absent
\* or empty (both ""), and when ZoneInfo does not know it (KeyError or
\* ValueError, caught).
resolve_job_timezone(job) ==
    IF job.timezone \in KnownZones THEN job.timezone ELSE "UTC"

\* Every zone is UTC.
UtcOffset_AlwaysUtc(zone) == 0

\* The offset of a zone from UTC in minutes, in January and February.
UtcOffset(zone) ==
    CASE zone = "Asia/Seoul"       -> 9 * 60
      [] zone = "America/New_York" -> 0 - 5 * 60
      [] OTHER                     -> 0

\* A timestamp without an offset read in a zone one tick ahead of UTC.
parse_one_shot_time_HostZone(at, t) ==
    CASE at.kind = "relative" -> t + at.t * TicksPerMinute
      [] at.kind = "iso"      -> at.t - 1
      [] OTHER                -> None

\* parse_one_shot_time: the instant (tick) of an `at` string, None when it
\* cannot be parsed.  A relative duration is added to the current time.
\* The caller handles a value that is not a string (raises).
parse_one_shot_time(at, t) ==
    CASE at.kind = "relative" -> t + at.t * TicksPerMinute
      [] at.kind = "iso"      -> at.t
      [] OTHER                -> None

ParseRaises(at) == at.kind = "datetime"

\* Is value v one of the values of field f.
FieldMatch(f, v) == f.lo <= v /\ v <= f.hi /\ (v - f.lo) % f.step = 0

\* The least value of field f that is at least v, None when there is none.
NextInField(f, v) ==
    LET n == IF v <= f.lo THEN f.lo
             ELSE f.lo + ((v - f.lo + f.step - 1) \div f.step) * f.step
    IN  IF n <= f.hi THEN n ELSE None

\* The calendar of the model: day 0 is Thursday 2026-01-01, and the search
\* for a fire time ends with day LastDay (2026-02-28).  Times are seconds
\* from the start of day 0.
DaySeconds == DayMinutes * 60

CalendarOf(d) ==
    [month |-> IF d < 31 THEN 1 ELSE IF d < 59 THEN 2 ELSE 3,
     day |-> IF d < 31 THEN d + 1 ELSE IF d < 59 THEN d - 30 ELSE d - 58,
     weekday |-> (d + 4) % 7]

\* Does the expression fire on day d: the month matches, and the day of the
\* month and the day of the week match; when both of these are restricted
\* one of them is enough (cron's rule, which croniter follows).
DayMatch(c, d) ==
    LET cal == CalendarOf(d)
        dom == FieldMatch(c.day, cal.day)
        dow == FieldMatch(c.weekday, cal.weekday)
    IN  /\ FieldMatch(c.month, cal.month)
        /\ IF c.day # EveryMinute.day /\ c.weekday # EveryMinute.weekday
           THEN dom \/ dow ELSE dom /\ dow

\* Does the expression fire in the minute that holds second t.
DirectMatch(c, t) ==
    /\ FieldMatch(c.minute, (t % 3600) \div 60)
    /\ FieldMatch(c.hour, (t % DaySeconds) \div 3600)
    /\ DayMatch(c, t \div DaySeconds)

\* croniter(schedule, start).get_next(): the first fire time after start,
\* found as croniter finds it, by day, hour and minute; a time after the
\* calendar when there is none in it.
CronGetNext(c, start) ==
    LET first == start \div 60 + 1
        d0 == first \div DayMinutes
        h0 == (first % DayMinutes) \div 60
        m0 == first % 60
        today == IF FieldMatch(c.hour, h0) /\ NextInField(c.minute, m0) # None
                 THEN h0 * 60 + NextInField(c.minute, m0)
                 ELSE IF NextInField(c.hour, h0 + 1) # None
                      THEN NextInField(c.hour, h0 + 1) * 60 + c.minute.lo
                      ELSE None
        later == { d \in (d0 + 1) .. LastDay : DayMatch(c, d) }
    IN  IF DayMatch(c, d0) /\ today # None THEN (d0 * DayMinutes + today) * 60
        ELSE IF later # {}
             THEN (Min(later) * DayMinutes + c.hour.lo * 60 + c.minute.lo) * 60
             ELSE (LastDay + 1) * DaySeconds

\* The match on croniter(schedule, current_minute): the second is not
\* subtracted.
ScheduleMatches_FromMinute(job, t) ==
    LET now_in_timezone == t + UtcOffset(resolve_job_timezone(job)) * 60
        current_minute == (now_in_timezone \div 60) * 60
        previous_fire == CronGetNext(job.schedule, current_minute)
    IN  (previous_fire \div 60) * 60 = current_minute

\* Lines 365-377: the minute match of the scheduler at second t (UTC).
ScheduleMatches(job, t) ==
    LET job_timezone == resolve_job_timezone(job)
        now_in_timezone == t + UtcOffset(job_timezone) * 60
        current_minute == (now_in_timezone \div 60) * 60
        previous_fire == CronGetNext(job.schedule, current_minute - 1)
        previous_fire_minute == (previous_fire \div 60) * 60
    IN  previous_fire_minute = current_minute

\* next_run_time of a cron job at second t (UTC): the wall-clock time of
\* the next fire in the zone of the job, and that zone.
next_run_time(job, t) ==
    LET job_timezone == resolve_job_timezone(job)
    IN  [local |-> CronGetNext(job.schedule, t + UtcOffset(job_timezone) * 60),
         tzinfo |-> job_timezone]

\* The scheduler loop is started on day 1 at 20:59:00 UTC; the clock of the
\* loop counts ticks of CRON_CHECK_INTERVAL_SECONDS from there.
LoopStart == DaySeconds + (20 * 60 + 59) * 60
InstantOf(t) == LoopStart + t * 30

----------------------------------------------------------------------------
(* cron.py: store operations *)

IndexOf(seq, n) ==
    IF \E i \in DOMAIN seq : seq[i].name = n
    THEN Min({ i \in DOMAIN seq : seq[i].name = n })
    ELSE 0

\* filter of remove_cron_job
RECURSIVE Without(_, _)
Without(seq, n) ==
    IF seq = << >> THEN << >>
    ELSE IF Head(seq).name = n THEN Without(Tail(seq), n)
         ELSE <<Head(seq)>> \o Without(Tail(seq), n)

remove_cron_job(seq, n) == Without(seq, n)

\* Every job's flag set, not only the named job's.
SetEnabled_All(seq, n, e) ==
    IF IndexOf(seq, n) = 0 THEN seq
    ELSE [i \in DOMAIN seq |-> [seq[i] EXCEPT !.enabled = e]]

SetEnabled(seq, n, e) ==
    IF IndexOf(seq, n) = 0 THEN seq
    ELSE [seq EXCEPT ![IndexOf(seq, n)].enabled = e]

enable_cron_job(seq, n) == SetEnabled(seq, n, TRUE)
disable_cron_job(seq, n) == SetEnabled(seq, n, FALSE)

\* The job appended without the look for its name.
add_cron_job_NoCheck(seq, job, t) == Append(seq, job)

\* The job stored as it was given, a relative `at` included.
add_cron_job_KeepRelative(seq, job, t) ==
    IF \E i \in DOMAIN seq : seq[i].name = job.name THEN seq
    ELSE Append(seq, job)

\* add_cron_job at tick t: a relative `at` is stored as an absolute instant.
add_cron_job(seq, job, t) ==
    IF \E i \in DOMAIN seq : seq[i].name = job.name THEN seq
    ELSE IF job.at.kind = "relative"
         THEN Append(seq, [job EXCEPT !.at = AtIso(parse_one_shot_time(job.at, t))])
         ELSE Append(seq, job)

----------------------------------------------------------------------------
(* cron.py: run_cron_scheduler *)

\* The enabled flag ignored.
IsEnabled_Ignored(job) == TRUE

\* Line 349: is the job a firing candidate.
IsEnabled(job) == job.enabled

\* No FireGuard for one-shot jobs.
OneShotGuard_Absent(last_run) == TRUE

\* Line 360: FireGuard of a one-shot job.
OneShotGuard(last_run) == last_run = None

\* The guard with <= in place of <.
CronGuard_OrEqual(last_run, now_utc) == last_run = None \/ last_run <= now_utc

\* Line 381: FireGuard of a cron job; now_utc is the truncated minute.
CronGuard(last_run, now_utc) == last_run = None \/ last_run < now_utc

TruncMinute(t) == (t \div TicksPerMinute) * TicksPerMinute

\* Lines 345-383 for one job: t1 is the clock at the first read, t2 at the
\* read of now_utc.  The result says whether the evaluation raised, whether
\* the job is to run, and the FireGuard afterwards.
Evaluate(job, t1, t2, lrt) ==
    LET skip == [raised |-> FALSE, should_run |-> FALSE, kind |-> "skip", lrt |-> lrt]
    IN
    IF job.name = "" THEN [skip EXCEPT !.kind = "nameless"]
    ELSE IF ~IsEnabled(job) THEN [skip EXCEPT !.kind = "disabled"]
    ELSE IF job.at.kind # "absent"
    THEN IF ParseRaises(job.at)
         THEN [skip EXCEPT !.raised = TRUE, !.kind = "raise"]
         ELSE LET at_time == parse_one_shot_time(job.at, t1)
              IN  IF at_time # None /\ at_time <= t1
                  THEN IF OneShotGuard(lrt[job.name])
                       THEN [raised |-> FALSE, should_run |-> TRUE, kind |-> "at",
                             lrt |-> [lrt EXCEPT ![job.name] = t1]]
                       ELSE [skip EXCEPT !.kind = "guarded_at"]
                  ELSE skip
    ELSE IF job.schedule.kind # "absent"
    THEN IF job.schedule.kind = "cron" /\ ScheduleMatches(job, InstantOf(t1))
         THEN IF CronGuard(lrt[job.name], TruncMinute(t2))
              THEN [raised |-> FALSE, should_run |-> TRUE, kind |-> "schedule",
                    lrt |-> [lrt EXCEPT ![job.name] = TruncMinute(t2)]]
              ELSE [skip EXCEPT !.kind = "guarded_schedule"]
         ELSE skip
    ELSE skip

\* The post-fire policy left to the end of the execution.
PostFire_Deferred(seq, job) == seq

\* Lines 396-402: the post-fire policy of a one-shot job.
PostFire(seq, job) ==
    IF job.at.kind = "absent" THEN seq
    ELSE IF job.delete_after_run THEN remove_cron_job(seq, job.name)
         ELSE disable_cron_job(seq, job.name)

\* The execution awaited in the loop.
AfterDispatch_Awaited(should_run, next) == IF should_run THEN "exec" ELSE next

\* Line 386: asyncio.create_task returns at once; the loop goes on to the
\* position that follows the job.
AfterDispatch(should_run, next) == next

\* The loop goes on without the wait.
WaitOutcome_NoWait(stop, elapsed) == IF stop THEN "stopped" ELSE "top"

\* A plain sleep of the interval: the stop signal is seen at its end.
WaitOutcome_Sleep(stop, elapsed) ==
    IF elapsed THEN (IF stop THEN "stopped" ELSE "top") ELSE "wait"

\* Lines 408-412: asyncio.wait_for(stop_event.wait(), timeout): where the
\* loop goes, "wait" while neither has happened.
WaitOutcome(stop, elapsed) ==
    IF stop THEN "stopped" ELSE IF elapsed THEN "top" ELSE "wait"

\* Lines 340-342: the loop test and the load of the job list.
CronLoad ==
    /\ cronPc = "top"
    /\ IF stop_event
       THEN /\ cronPc' = "stopped"
            /\ UNCHANGED <<jobs, idx, cycleStart, cronWaitStart>>
            /\ lastStep' = [op |-> "stopped", name |-> ""]
       ELSE /\ jobs' = store
            /\ idx' = 1
            /\ cycleStart' = IF store = << >> THEN 0 ELSE now
            /\ cronPc' = IF store = << >> THEN "wait" ELSE "eval"
            /\ cronWaitStart' = IF store = << >> THEN now ELSE 0
            /\ lastStep' = [op |-> "load", name |-> ""]
    /\ UNCHANGED <<hbVars, auxVars>>
    /\ UNCHANGED <<now, stop_event, store, last_run_times, inFlight,
                   cronFires, oneShotFires>>

\* Lines 344-405: one iteration of the for loop.
CronJobStep ==
    /\ cronPc = "eval"
    /\ idx <= Len(jobs)
    /\ \E t2 \in {now, now + 1} :
         LET job == jobs[idx]
             r == Evaluate(job, now, t2, last_run_times)
             last == r.raised \/ idx = Len(jobs)
         IN  /\ t2 <= MaxTime
             /\ (r.kind \notin {"schedule", "guarded_schedule"}) => t2 = now
             /\ r.should_run => inFlight[job.name] < MaxInFlight
             /\ now' = t2
             /\ last_run_times' = r.lrt
             /\ inFlight' = IF r.should_run
                            THEN [inFlight EXCEPT ![job.name] = @ + 1]
                            ELSE inFlight
             /\ store' = IF r.should_run THEN PostFire(store, job) ELSE store
             /\ cronFires' = IF r.kind = "schedule"
                             THEN [cronFires EXCEPT ![job.name] =
                                     IF @.minute = t2 \div TicksPerMinute
                                     THEN [@ EXCEPT !.count = @ + 1]
                                     ELSE [minute |-> t2 \div TicksPerMinute, count |-> 1]]
                             ELSE cronFires
             /\ oneShotFires' = IF r.kind = "at"
                                THEN [oneShotFires EXCEPT ![job.name] = @ + 1]
                                ELSE oneShotFires
             /\ idx' = IF last THEN 1 ELSE idx + 1
             /\ jobs' = IF last THEN << >> ELSE jobs
             /\ cycleStart' = IF last THEN 0 ELSE cycleStart
             /\ cronPc' = AfterDispatch(r.should_run, IF last THEN "wait" ELSE "eval")
             /\ cronWaitStart' = IF last THEN t2 ELSE 0
             /\ lastStep' = [op |-> r.kind, name |-> job.name]
    /\ UNCHANGED <<stop_event, hbVars, auxVars>>

\* Lines 408-412: wait for the interval or for the stop signal.
CronWait ==
    /\ cronPc = "wait"
    /\ LET to == WaitOutcome(stop_event, now >= cronWaitStart + CRON_CHECK_INTERVAL_TICKS)
       IN  /\ to # "wait"
           /\ cronPc' = to
           /\ lastStep' = [op |-> IF to = "top" THEN "timeout" ELSE to, name |-> ""]
    /\ cronWaitStart' = IF cronPc' = "top" THEN 0 ELSE cronWaitStart
    /\ UNCHANGED <<hbVars, auxVars>>
    /\ UNCHANGED <<now, stop_event, store, jobs, idx, cycleStart, last_run_times,
                   inFlight, cronFires, oneShotFires>>

\* execute_cron_job ends: run_claude returned or failed; the result text
\* is sent from the task, the loop is not involved.
ExecOutcomes == {"ok", "Timeout", "ProcessFailure", "Cancelled"}

CronExecDone ==
    \E n \in Names, outcome \in ExecOutcomes :
        /\ inFlight[n] > 0
        /\ inFlight' = [inFlight EXCEPT ![n] = @ - 1]
        /\ UNCHANGED <<hbVars, auxVars>>
        /\ UNCHANGED <<now, stop_event, store, cronPc, jobs, idx, cycleStart, last_run_times,
                       cronWaitStart, cronFires, oneShotFires, lastStep>>

----------------------------------------------------------------------------
(* Environment: the command line, the clock, the shutdown signal *)

\* The command line edits the store of a running bot between two cycles.
CanEdit == cronPc = "wait"

CliAdd ==
    \E job \in NewJobs :
        /\ CanEdit
        /\ Len(store) < MaxJobs
        /\ store' = add_cron_job(store, job, now)
        /\ store' # store
        /\ UNCHANGED <<hbVars, auxVars>>
        /\ UNCHANGED <<now, stop_event, cronPc, jobs, idx, cycleStart, last_run_times,
                       cronWaitStart, inFlight, cronFires, oneShotFires, lastStep>>

CliRemove ==
    \E n \in Names :
        /\ CanEdit
        /\ store' = remove_cron_job(store, n)
        /\ store' # store
        /\ UNCHANGED <<hbVars, auxVars>>
        /\ UNCHANGED <<now, stop_event, cronPc, jobs, idx, cycleStart, last_run_times,
                       cronWaitStart, inFlight, cronFires, oneShotFires, lastStep>>

CliEnable ==
    \E n \in Names :
        /\ CanEdit
        /\ store' = enable_cron_job(store, n)
        /\ store' # store
        /\ UNCHANGED <<hbVars, auxVars>>
        /\ UNCHANGED <<now, stop_event, cronPc, jobs, idx, cycleStart, last_run_times,
                       cronWaitStart, inFlight, cronFires, oneShotFires, lastStep>>

CliDisable ==
    \E n \in Names :
        /\ CanEdit
        /\ store' = disable_cron_job(store, n)
        /\ store' # store
        /\ UNCHANGED <<hbVars, auxVars>>
        /\ UNCHANGED <<now, stop_event, cronPc, jobs, idx, cycleStart, last_run_times,
                       cronWaitStart, inFlight, cronFires, oneShotFires, lastStep>>

----------------------------------------------------------------------------
(* heartbeat.py *)

\* A value of interval_minutes as yaml.safe_load returns it.
IntAbsent == [kind |-> "absent", v |-> 0]
IntOf(v) == [kind |-> "int", v |-> v]
IntStr == [kind |-> "str", v |-> 0]      \* a quoted number: a str
IntNull == [kind |-> "null", v |-> 0]    \* an empty value: None

\* active_hours, start and end as minutes of the day; a value that is not
\* "HH:MM" (is_within_active_hours raises ValueError on it) is malformed.
WinAbsent == [kind |-> "absent", start |-> None, end |-> None]
Win(s, e) == [kind |-> "window", start |-> s, end |-> e]
WinMalformed == [kind |-> "malformed", start |-> None, end |-> None]

HbConfig(e, i, w) == [enabled |-> e, interval_minutes |-> i, active_hours |-> w]

\* The heartbeat sections the model stores.
HbConfigs ==
    { HbConfig(e, i, w) :
        e \in {"true", "false", "absent"},
        i \in {IntOf(1), IntOf(2), IntStr, IntNull, IntAbsent},
        w \in {Win(0, 1), Win(1, 1), WinAbsent, WinMalformed} }

\* load_bot_config returns None: bot.yaml does not exist.
HbMissing == HbConfig("missing", IntAbsent, WinAbsent)

DEFAULT_INTERVAL_MINUTES == 30

\* Line 282: the window of a section without active_hours, 07:00-23:00.
DefaultActiveHours == Win(7 * 60, 23 * 60)

\* The window with an exclusive end.
is_within_active_hours_ExclusiveEnd(w, current_minutes) ==
    LET start_minutes == IF w.start = None THEN 0 ELSE w.start
        end_minutes == IF w.end = None THEN DayMinutes - 1 ELSE w.end
    IN  IF start_minutes <= end_minutes
        THEN start_minutes <= current_minutes /\ current_minutes < end_minutes
        ELSE current_minutes >= start_minutes \/ current_minutes < end_minutes

\* start = end taken for a window that is always active.
is_within_active_hours_EqualAlways(w, current_minutes) ==
    LET start_minutes == IF w.start = None THEN 0 ELSE w.start
        end_minutes == IF w.end = None THEN DayMinutes - 1 ELSE w.end
    IN  IF start_minutes < end_minutes
        THEN start_minutes <= current_minutes /\ current_minutes <= end_minutes
        ELSE current_minutes >= start_minutes \/ current_minutes <= end_minutes

\* is_within_active_hours with the current minute of the day.
is_within_active_hours(w, current_minutes) ==
    LET start_minutes == IF w.start = None THEN 0 ELSE w.start
        end_minutes == IF w.end = None THEN DayMinutes - 1 ELSE w.end
    IN  IF start_minutes <= end_minutes
        THEN start_minutes <= current_minutes /\ current_minutes <= end_minutes
        ELSE current_minutes >= start_minutes \/ current_minutes <= end_minutes

\* datetime.now(): local minute of the day at tick t.
LocalMinutes(t) == (t \div TicksPerMinute) % DayMinutes

\* interval_minutes * 60, in ticks: a number, a str (repetition of a str is
\* a str), or TypeError for None.
Seconds(i) ==
    CASE i.kind = "int"    -> [kind |-> "int", v |-> i.v * TicksPerMinute]
      [] i.kind = "absent" -> [kind |-> "int", v |-> DEFAULT_INTERVAL_MINUTES * TicksPerMinute]
      [] i.kind = "str"    -> [kind |-> "str", v |-> 0]
      [] OTHER             -> [kind |-> "raise", v |-> 0]

\* Lines 312-324: update the interval from the configuration of the cycle
\* and call asyncio.wait_for, which raises TypeError on a timeout that is
\* not a number; the exception leaves the loop.
AfterCycle(cfg, old) ==
    LET new == IF Seconds(cfg.interval_minutes).kind = "raise" THEN old
               ELSE Seconds(cfg.interval_minutes)
    IN  [interval |-> new, pc |-> IF new.kind = "int" THEN "wait" ELSE "dead"]

\* The execution started as a task, as in the cron loop.
AwaitPc_Task(run, after) == after

\* Line 304: the execution is awaited; the loop stays at the call until
\* execute_heartbeat has returned.
AwaitPc(run, after) == IF run THEN "exec" ELSE after

\* Line 296-297: the configuration of the cycle: the stored section, or the
\* bot_config the loop was started with when bot.yaml does not exist.
CurrentConfig == IF hbStore = HbMissing THEN hbBoot ELSE hbStore

\* The enabled flag ignored.
HbDecision_EnabledIgnored(cfg, start_window, current_minutes) ==
    LET current_active_hours == IF cfg.active_hours.kind = "absent"
                                THEN start_window ELSE cfg.active_hours
    IN  IF current_active_hours.kind = "malformed" THEN "raise"
        ELSE IF is_within_active_hours(current_active_hours, current_minutes)
             THEN "execute" ELSE "outside"

\* Lines 299-310: the decision of a cycle on the section it read;
\* start_window is the window the loop read when it started (line 282).
HbDecision(cfg, start_window, current_minutes) ==
    LET current_active_hours == IF cfg.active_hours.kind = "absent"
                                THEN start_window ELSE cfg.active_hours
    IN  IF cfg.enabled # "true" THEN "disabled"
        ELSE IF current_active_hours.kind = "malformed" THEN "raise"
        ELSE IF is_within_active_hours(current_active_hours, current_minutes)
             THEN "execute" ELSE "outside"

\* Lines 293-318: the loop test, the read of the configuration and the
\* decision; the execution is awaited.  An exception of the evaluation is
\* logged at line 316 and the interval is left as it was.
HbCycle ==
    /\ hbPc = "top"
    /\ IF stop_event
       THEN /\ hbPc' = "stopped"
            /\ hbLast' = "stopped"
            /\ UNCHANGED <<interval_seconds, current_heartbeat_config,
                           hbWaitStart, hbRuns>>
       ELSE LET cfg == CurrentConfig
                decision == HbDecision(cfg, active_hours, LocalMinutes(now))
                run == decision = "execute"
                after == IF decision = "raise"
                         THEN [interval |-> interval_seconds, pc |-> "wait"]
                         ELSE AfterCycle(cfg, interval_seconds)
            IN  /\ hbPc' = AwaitPc(run, after.pc)
                /\ hbRuns' = IF run THEN hbRuns + 1 ELSE hbRuns
                /\ hbLast' = decision
                /\ current_heartbeat_config' = IF hbPc' = "exec" THEN cfg ELSE NoCall
                /\ interval_seconds' = IF hbPc' = "exec" THEN interval_seconds
                                       ELSE after.interval
                /\ hbWaitStart' = IF hbPc' = "wait" THEN now ELSE 0
    /\ UNCHANGED <<now, stop_event, hbStore, hbBoot, active_hours, cronVars, auxVars>>

\* execute_heartbeat returns or raises: run_claude failures that are an
\* Exception are caught at line 223; asyncio.CancelledError is not an
\* Exception and leaves execute_heartbeat and the loop.
Propagates(outcome) == outcome = "Cancelled"

\* Lines 304-314: the awaited execution ends; the interval is updated from
\* the section the cycle read before the execution.
HbExecDone ==
    \E outcome \in ExecOutcomes :
        /\ hbPc = "exec"
        /\ IF Propagates(outcome)
           THEN /\ hbPc' = "dead"
                /\ hbWaitStart' = 0
                /\ UNCHANGED interval_seconds
           ELSE LET after == AfterCycle(current_heartbeat_config, interval_seconds)
                IN  /\ hbPc' = after.pc
                    /\ interval_seconds' = after.interval
                    /\ hbWaitStart' = IF after.pc = "wait" THEN now ELSE 0
        /\ current_heartbeat_config' = NoCall
        /\ hbLast' = outcome
        /\ UNCHANGED <<now, stop_event, hbStore, hbBoot, active_hours, hbRuns, cronVars, auxVars>>

\* Lines 320-324: wait for the interval or for the stop signal.
HbWait ==
    /\ hbPc = "wait"
    /\ LET to == WaitOutcome(stop_event, now >= hbWaitStart + interval_seconds.v)
       IN  /\ to # "wait"
           /\ hbPc' = to
           /\ hbLast' = IF to = "top" THEN "timeout" ELSE to
    /\ hbWaitStart' = IF hbPc' = "top" THEN 0 ELSE hbWaitStart
    /\ UNCHANGED <<now, stop_event, hbStore, hbBoot, interval_seconds,
                   active_hours, current_heartbeat_config, hbRuns, cronVars, auxVars>>

\* An edit of bot.yaml (enable_heartbeat, disable_heartbeat, an editor), or
\* its removal.
HbEdit ==
    \E cfg \in HbConfigs \cup {HbMissing} :
        /\ hbPc \in {"exec", "wait"}
        /\ cfg # hbStore
        /\ hbStore' = cfg
        /\ UNCHANGED <<now, stop_event, hbBoot, hbPc, interval_seconds, active_hours,
                       current_heartbeat_config, hbWaitStart, hbRuns, hbLast,
                       cronVars, auxVars>>

----------------------------------------------------------------------------
(* Environment: the clock, the shutdown signal *)

Running == cronPc \in {"top", "eval", "wait"} \/ hbPc \in {"top", "exec", "wait"}

Tick ==
    /\ now < MaxTime
    /\ Running
    /\ now' = now + 1
    /\ UNCHANGED <<stop_event, cronVars, hbVars, auxVars>>

\* bot_manager.py signal_handler
Stop ==
    /\ ~stop_event
    /\ stop_event' = TRUE
    /\ UNCHANGED <<now, cronVars, hbVars, auxVars>>

----------------------------------------------------------------------------

vars == <<now, stop_event, cronVars, hbVars, auxVars>>

\* bot_manager.py line 142-147: the scheduler of a bot is started when its
\* store holds a job; the stores the model starts from hold one.
InitStores == { add_cron_job(<< >>, job, 0) : job \in NewJobs }

InitCron(pc, stores) ==
    /\ store \in stores
    /\ cronPc = pc
    /\ jobs = << >>
    /\ idx = 1
    /\ cycleStart = 0
    /\ last_run_times = [n \in Names |-> None]
    /\ cronWaitStart = 0
    /\ inFlight = [n \in Names |-> 0]
    /\ cronFires = [n \in Names |-> [minute |-> 0, count |-> 0]]
    /\ oneShotFires = [n \in Names |-> 0]
    /\ lastStep = [op |-> "init", name |-> ""]

\* Lines 280-283: the locals of run_heartbeat_scheduler at its start.
InitHeartbeat(pc, boots) ==
    /\ hbBoot \in boots
    /\ hbStore = hbBoot
    /\ hbPc = pc
    /\ interval_seconds = Seconds(hbBoot.interval_minutes)
    /\ active_hours = IF hbBoot.active_hours.kind = "absent"
                      THEN DefaultActiveHours ELSE hbBoot.active_hours
    /\ current_heartbeat_config = NoCall
    /\ hbWaitStart = 0
    /\ hbRuns = 0
    /\ hbLast = "init"

\* The updates of one chat that the model follows.
Messages == {1, 2, 3}

\* The calls of run_claude or run_claude_streaming made with one session key.
Calls == {1, 2, 3}

\* The processes that load and save one cron.yaml: the bot with its cron
\* loop, and a command of the command line.
Procs == {"scheduler", "cli"}

\* No update has arrived, no session exists, no process runs.
InitExt ==
    /\ msgPc = [m \in Messages |-> "idle"]
    /\ msgLocal = [m \in Messages |-> [resume_session |-> FALSE, attempt |-> 0]]
    /\ lockHolder = 0
    /\ lockWaiters = << >>
    /\ claude_session_id = 0
    /\ uuidCount = 0
    /\ conversation = << >>
    /\ session_dir = FALSE
    /\ arrivals = << >>
    /\ entered = << >>
    /\ calls = << >>
    /\ running_processes = 0
    /\ procs = [c \in Calls |-> "none"]
    /\ regPc = [c \in Calls |-> "idle"]
    /\ pending = [p \in Procs |-> [op |-> "none"]]
    /\ opLog = << >>

\* Outside the specification of _run_bots the bot is running, and outside
\* the specifications of single functions nothing is under evaluation.
InitAux(pc) ==
    /\ InitExt
    /\ botPc = pc
    /\ fnIn = NoCall
    /\ fnOut = NoCall

\* The cron scheduler of a started bot.
Init ==
    /\ now = 0
    /\ stop_event = FALSE
    /\ InitAux("running")
    /\ InitCron("top", InitStores)
    /\ InitHeartbeat("off", {HbConfig("false", IntOf(1), Win(0, 1))})

Next ==
    \/ CronLoad
    \/ CronJobStep
    \/ CronWait
    \/ CronExecDone
    \/ CliAdd
    \/ CliRemove
    \/ CliEnable
    \/ CliDisable
    \/ Tick
    \/ Stop

Spec == Init /\ [][Next]_vars

\* A bot.yaml that starts the loop: interval_minutes is a number.
BootConfigs ==
    { c \in HbConfigs : /\ c.interval_minutes = IntOf(1)
                        /\ c.enabled # "absent"
                        /\ c.active_hours.kind # "malformed" }

\* The heartbeat scheduler of a bot.
InitHb ==
    /\ now = 0
    /\ stop_event = FALSE
    /\ InitAux("running")
    /\ InitCron("off", {<< >>})
    /\ InitHeartbeat("top", BootConfigs)

NextHb ==
    \/ HbCycle
    \/ HbExecDone
    \/ HbWait
    \/ HbEdit
    \/ Tick
    \/ Stop

SpecHb == InitHb /\ [][NextHb]_vars

\* Both loops of one bot on one stop signal, the stores left alone.
InitLoops ==
    /\ now = 0
    /\ stop_event = FALSE
    /\ InitAux("running")
    /\ InitCron("top", InitStores)
    /\ InitHeartbeat("top", {HbConfig("true", IntOf(1), Win(0, 1))})

NextLoops ==
    \/ CronLoad
    \/ CronJobStep
    \/ CronWait
    \/ CronExecDone
    \/ CliAdd
    \/ HbCycle
    \/ HbExecDone
    \/ HbWait
    \/ Tick
    \/ Stop

SpecLoops == InitLoops /\ [][NextLoops]_vars

----------------------------------------------------------------------------
(* bot_manager.py: _run_bots for one bot *)

\* Lines 116-150: the application is started; a cron scheduler task is
\* created when the store of the bot holds a job; no task is created for
\* run_heartbeat_scheduler; then _run_bots awaits the stop signal.
BotStart ==
    /\ botPc = "created"
    /\ botPc' = "running"
    /\ cronPc' = IF store # << >> THEN "top" ELSE cronPc
    /\ UNCHANGED <<now, stop_event, store, jobs, idx, cycleStart, last_run_times,
                   cronWaitStart, inFlight, cronFires, oneShotFires, lastStep,
                   hbVars, fnIn, fnOut, extVars>>

\* Lines 153-159: after the stop signal the cron tasks are cancelled and
\* gathered.  A task is cancelled where it is suspended: before its first
\* step or in its wait.
BotStop ==
    /\ botPc = "running"
    /\ stop_event
    /\ cronPc # "eval"
    /\ botPc' = "stopped"
    /\ cronPc' = IF cronPc \in {"top", "wait"} THEN "cancelled" ELSE cronPc
    /\ UNCHANGED <<now, stop_event, store, jobs, idx, cycleStart, last_run_times,
                   cronWaitStart, inFlight, cronFires, oneShotFires, lastStep,
                   hbVars, fnIn, fnOut, extVars>>

\* A bot with heartbeat enabled, its cron store empty or holding one job.
InitBot ==
    /\ now = 0
    /\ stop_event = FALSE
    /\ InitAux("created")
    /\ InitCron("off", InitStores \cup {<< >>})
    /\ InitHeartbeat("off", {HbConfig("true", IntOf(1), Win(0, 1))})

NextBot ==
    \/ BotStart
    \/ BotStop
    \/ CronLoad
    \/ CronJobStep
    \/ CronWait
    \/ CronExecDone
    \/ Tick
    \/ Stop

SpecBot == InitBot /\ [][NextBot]_vars

----------------------------------------------------------------------------
(* heartbeat.py: is_within_active_hours on "HH:MM" values *)

\* The text "HH:MM" of a minute of the day, as its two numbers.
ClockOf(m) == [hour |-> m \div 60, minute |-> m % 60]

\* Lines 100-105: map(int, text.split(":")) and hour * 60 + minute.
MinutesOf(c) == c.hour * 60 + c.minute

\* The minutes of the day the functions are evaluated on: midnight, 03:00,
\* 06:00, 07:00, 09:00, 12:00, 14:00, 21:00, 22:00, 23:00, 23:30 and 23:59,
\* with the minutes around each.
ClockAnchors == {0, 3 * 60, 6 * 60, 7 * 60, 9 * 60, 12 * 60, 14 * 60, 21 * 60,
                 22 * 60, 23 * 60, 23 * 60 + 30, DayMinutes - 1}

ClockSamples ==
    { m \in 0 .. (DayMinutes - 1) :
        \E a \in ClockAnchors : m \in (a - MaxMinuteOffset) .. (a + MaxMinuteOffset) }

InitIdle ==
    /\ InitExt
    /\ now = 0
    /\ stop_event = FALSE
    /\ botPc = "running"
    /\ InitCron("off", {<< >>})
    /\ InitHeartbeat("off", {HbConfig("false", IntOf(1), Win(0, 1))})

InitActiveHours ==
    /\ InitIdle
    /\ fnIn \in { [fn |-> "is_within_active_hours",
                    start |-> ClockOf(s), end |-> ClockOf(e), now |-> ClockOf(n)] :
                      s \in ClockSamples, e \in ClockSamples, n \in ClockSamples }
    /\ fnOut = NoCall

\* is_within_active_hours(active_hours, now)
CallActiveHours ==
    /\ fnIn.fn = "is_within_active_hours"
    /\ fnOut = NoCall
    /\ fnOut' = [fn |-> fnIn.fn,
                 value |-> is_within_active_hours(
                               Win(MinutesOf(fnIn.start), MinutesOf(fnIn.end)),
                               fnIn.now.hour * 60 + fnIn.now.minute)]
    /\ UNCHANGED <<now, stop_event, cronVars, hbVars, botPc, fnIn, extVars>>

NextActiveHours == CallActiveHours

SpecActiveHours == InitActiveHours /\ [][NextActiveHours]_vars

----------------------------------------------------------------------------
(* cron.py: the minute match and next_run_time on 5-field expressions *)

\* "*/15 9-17 * * 1-5", "0 6 1 * 0" (the first of the month or a Sunday),
\* "0 21 * 2 *" and "1 */6 * * *", with the daily and every-minute ones.
CronSchedules ==
    { EveryMinute, DailyAt(6, 0), DailyAt(9, 0),
      [EveryMinute EXCEPT !.minute = Field(0, 59, 15), !.hour = Field(9, 17, 1),
                          !.weekday = Field(1, 5, 1)],
      [DailyAt(6, 0) EXCEPT !.day = Field(1, 1, 1), !.weekday = Field(0, 0, 1)],
      [DailyAt(21, 0) EXCEPT !.month = Field(2, 2, 1)],
      [EveryMinute EXCEPT !.minute = Field(1, 1, 1), !.hour = Field(0, 23, 6)] }

\* Friday 2 January, Saturday 3 January, Sunday 4 January, Sunday 1 February;
\* the seconds 0, 30 and 59 of the sampled minutes.
CronInstants ==
    { d * DaySeconds + m * 60 + sec :
        d \in {1, 2, 3, 31}, m \in ClockSamples, sec \in {0, 30, 59} }

InitCronMatch ==
    /\ InitIdle
    /\ fnIn \in { [fn |-> "schedule",
                    job |-> Job("a", TRUE, AtAbsent, c, z, FALSE), at |-> t] :
                      c \in CronSchedules,
                      z \in KnownZones \cup {"", "Not/AZone"},
                      t \in CronInstants }
    /\ fnOut = NoCall

\* The scheduler's match of the job at the instant, and next_run_time(job).
CallCronMatch ==
    /\ fnIn.fn = "schedule"
    /\ fnOut = NoCall
    /\ fnOut' = [fn |-> fnIn.fn,
                 value |-> ScheduleMatches(fnIn.job, fnIn.at),
                 next |-> next_run_time(fnIn.job, fnIn.at)]
    /\ UNCHANGED <<now, stop_event, cronVars, hbVars, botPc, fnIn, extVars>>

NextCronMatch == CallCronMatch

SpecCronMatch == InitCronMatch /\ [][NextCronMatch]_vars

----------------------------------------------------------------------------
(* cron.py: the store operations called one after the other on one bot *)

\* The jobs handed to add_cron_job: the jobs of the command line, a job
\* with a schedule that is no cron expression, a job with an `at` that is
\* neither a timestamp nor a duration.
AddInputs ==
    NewJobs \cup { Job("a", TRUE, AtAbsent, SchedInvalid, "", FALSE),
                   Job("b", TRUE, AtGarbage, SchedAbsent, "", TRUE) }

InitStore ==
    /\ InitIdle
    /\ fnIn = NoCall
    /\ fnOut = NoCall

\* add_cron_job(bot_name, job): ValueError when the name is taken.
StoreAdd ==
    \E job \in AddInputs :
        /\ Len(store) < MaxJobs \/ \E i \in DOMAIN store : store[i].name = job.name
        /\ store' = add_cron_job(store, job, now)
        /\ fnOut' = [fn |-> "add_cron_job", name |-> job.name,
                     raised |-> \E i \in DOMAIN store : store[i].name = job.name]
        /\ UNCHANGED <<now, stop_event, jobs, idx, cronPc, cycleStart, last_run_times,
                       cronWaitStart, inFlight, cronFires, oneShotFires, lastStep,
                       hbVars, botPc, fnIn, extVars>>

\* remove_cron_job(bot_name, job_name): False when no job was filtered out.
StoreRemove ==
    \E n \in Names :
        /\ store' = remove_cron_job(store, n)
        /\ fnOut' = [fn |-> "remove_cron_job", name |-> n,
                     value |-> Len(store') # Len(store)]
        /\ UNCHANGED <<now, stop_event, jobs, idx, cronPc, cycleStart, last_run_times,
                       cronWaitStart, inFlight, cronFires, oneShotFires, lastStep,
                       hbVars, botPc, fnIn, extVars>>

\* enable_cron_job and disable_cron_job: True at the first job of the name.
StoreSetEnabled ==
    \E n \in Names, e \in BOOLEAN :
        /\ store' = IF e THEN enable_cron_job(store, n) ELSE disable_cron_job(store, n)
        /\ fnOut' = [fn |-> "set_enabled", name |-> n, enabled |-> e,
                     value |-> IndexOf(store, n) # 0]
        /\ UNCHANGED <<now, stop_event, jobs, idx, cronPc, cycleStart, last_run_times,
                       cronWaitStart, inFlight, cronFires, oneShotFires, lastStep,
                       hbVars, botPc, fnIn, extVars>>

\* The post-fire policy of the scheduler on an enabled one-shot job.
StorePostFire ==
    \E i \in DOMAIN store :
        /\ store[i].enabled
        /\ store[i].at.kind # "absent"
        /\ store' = PostFire(store, store[i])
        /\ fnOut' = [fn |-> "post_fire", name |-> store[i].name, value |-> TRUE]
        /\ UNCHANGED <<now, stop_event, jobs, idx, cronPc, cycleStart, last_run_times,
                       cronWaitStart, inFlight, cronFires, oneShotFires, lastStep,
                       hbVars, botPc, fnIn, extVars>>

NextStore ==
    \/ StoreAdd
    \/ StoreRemove
    \/ StoreSetEnabled
    \/ StorePostFire

SpecStore == InitStore /\ [][NextStore]_vars

----------------------------------------------------------------------------
(* cron.py execute_cron_job and heartbeat.py execute_heartbeat: who is sent
   what when run_claude has ended *)

\* The chat ids of the users and of the session directories.
ChatIds == {111, 222}

\* Lines 271-316 of cron.py.  `except Exception` turns a failure of
\* run_claude into the text "Cron job '<name>' failed: <error>", unless the
\* failure propagates; the text goes to allowed_users, or to the chat ids
\* of the session directories when there are none.
execute_cron_job(in) ==
    IF Propagates(in.outcome)
    THEN [raised |-> TRUE, text |-> "none", sent |-> {}]
    ELSE LET response == IF in.outcome = "ok" THEN "response" ELSE "failure"
             allowed_users == IF in.allowed_users # {} THEN in.allowed_users
                              ELSE in.session_chat_ids
         IN  IF allowed_users = {}
             THEN [raised |-> FALSE, text |-> "none", sent |-> {}]
             ELSE [raised |-> FALSE, text |-> response, sent |-> allowed_users]

\* Lines 204-254 of heartbeat.py.  Nothing runs without HEARTBEAT.md; the
\* text of a failure is "Heartbeat failed: <error>"; a text that contains
\* the marker is not sent; the text goes to allowed_users.
execute_heartbeat(in) ==
    IF ~in.heartbeat_md
    THEN [raised |-> FALSE, text |-> "none", sent |-> {}]
    ELSE IF Propagates(in.outcome)
    THEN [raised |-> TRUE, text |-> "none", sent |-> {}]
    ELSE LET response == IF in.outcome = "ok" THEN "response" ELSE "failure"
         IN  IF in.marker \/ in.allowed_users = {}
             THEN [raised |-> FALSE, text |-> "none", sent |-> {}]
             ELSE [raised |-> FALSE, text |-> response, sent |-> in.allowed_users]

\* The calls: how run_claude ends, whether its text (the response, or the
\* stderr quoted in a process failure) contains HEARTBEAT_OK, the configured
\* users, the session directories, and whether HEARTBEAT.md exists.
InitExec ==
    /\ InitIdle
    /\ fnIn \in { c \in [fn : {"execute_cron_job", "execute_heartbeat"},
                         outcome : ExecOutcomes,
                         marker : BOOLEAN,
                         allowed_users : SUBSET ChatIds,
                         session_chat_ids : SUBSET ChatIds,
                         heartbeat_md : BOOLEAN] :
                    /\ c.marker => c.outcome \in {"ok", "ProcessFailure"}
                    /\ c.fn = "execute_cron_job" => c.heartbeat_md }
    /\ fnOut = NoCall

CallExecuteCronJob ==
    /\ fnIn.fn = "execute_cron_job"
    /\ fnOut = NoCall
    /\ fnOut' = [fn |-> fnIn.fn, result |-> execute_cron_job(fnIn)]
    /\ UNCHANGED <<now, stop_event, cronVars, hbVars, botPc, fnIn, extVars>>

CallExecuteHeartbeat ==
    /\ fnIn.fn = "execute_heartbeat"
    /\ fnOut = NoCall
    /\ fnOut' = [fn |-> fnIn.fn, result |-> execute_heartbeat(fnIn)]
    /\ UNCHANGED <<now, stop_event, cronVars, hbVars, botPc, fnIn, extVars>>

NextExec ==
    \/ CallExecuteCronJob
    \/ CallExecuteHeartbeat

SpecExec == InitExec /\ [][NextExec]_vars

----------------------------------------------------------------------------
(* cron.py: run_cron_scheduler on its own, with the timing of its loop *)

\* The stores the loop is started on: one job, or two jobs in either order.
LiveStores ==
    InitStores \cup { add_cron_job(st, job, 0) : st \in InitStores, job \in NewJobs }

InitLive ==
    /\ now = 0
    /\ stop_event = FALSE
    /\ InitAux("running")
    /\ InitCron("top", LiveStores)
    /\ InitHeartbeat("off", {HbConfig("false", IntOf(1), Win(0, 1))})

\* Lines 340-405 hold no await: a cycle runs without giving up the event
\* loop, and the only suspension is the wait of line 409.  The clock moves
\* on while the loop is in that wait and the 30 seconds are not over (and
\* between the two clock reads of one evaluation, in CronJobStep).
TickLive ==
    /\ cronPc = "wait"
    /\ now < cronWaitStart + CRON_CHECK_INTERVAL_TICKS
    /\ Tick

NextLive ==
    \/ CronLoad
    \/ CronJobStep
    \/ CronWait
    \/ CronExecDone
    \/ TickLive

\* The event loop resumes the scheduler whenever it can run, and time passes.
SpecLive ==
    /\ InitLive
    /\ [][NextLive]_vars
    /\ WF_vars(CronLoad)
    /\ WF_vars(CronJobStep)
    /\ WF_vars(CronWait)
    /\ WF_vars(TickLive)

----------------------------------------------------------------------------
(* handlers.py: message_handler and file_handler of one chat, with /reset
   and /resetall *)

\* Every session id given to the model is a new one.
prepare_session_context_AlwaysNew(stored, fresh) ==
    [claude_session_id |-> fresh, resume_session |-> FALSE]

\* Lines 498-531: the stored id is resumed; without one a uuid4 is drawn
\* and stored, and the session is not resumed.
prepare_session_context(stored, fresh) ==
    IF stored # 0 THEN [claude_session_id |-> stored, resume_session |-> TRUE]
    ELSE [claude_session_id |-> fresh, resume_session |-> FALSE]

\* Any failure of the first call answered by a second call.
ShouldRetry_AnyFailure(outcome, resume_session, attempt) ==
    outcome # "ok" /\ attempt = 1

\* Lines 545-557: only the RuntimeError of a resumed call is answered by a
\* second call; the second call is outside the try.
ShouldRetry(outcome, resume_session, attempt) ==
    outcome = "ProcessFailure" /\ resume_session /\ attempt = 1

\* A handler that catches Exception only.
HandlerCatches_ExceptionOnly(outcome) == outcome # "Cancelled"

\* Lines 631-654 and 717-740: the outcomes of the call the handler turns
\* into a response text: a return, CancelledError, TimeoutError, RuntimeError.
HandlerCatches(outcome) ==
    outcome \in {"ok", "Cancelled", "Timeout", "ProcessFailure"}

\* Lines 620-632 and 682-718: the handler holds the lock; the session
\* directory is made, the user entry is written, the session context is
\* prepared and the Executor is called.
Enter(m) ==
    LET context == prepare_session_context(claude_session_id, uuidCount + 1)
    IN  /\ lockHolder' = m
        /\ entered' = Append(entered, m)
        /\ session_dir' = TRUE
        /\ conversation' = Append(IF session_dir THEN conversation ELSE << >>,
                                  [role |-> "user", msg |-> m, text |-> "message"])
        /\ claude_session_id' = context.claude_session_id
        /\ uuidCount' = IF context.resume_session THEN uuidCount ELSE uuidCount + 1
        /\ msgLocal' = [msgLocal EXCEPT ![m] = [resume_session |-> context.resume_session,
                                                 attempt |-> 1]]
        /\ calls' = Append(calls, [msg |-> m, id |-> context.claude_session_id,
                                   resume |-> context.resume_session,
                                   outcome |-> "running"])
        /\ msgPc' = [msgPc EXCEPT ![m] = "call"]

\* Lines 604-619 and 667-681: an update arrives.  With the lock held the
\* handler first awaits the reply "Message queued"; with the lock free and
\* nobody waiting `async with lock` is entered at once; with the lock free
\* and handlers waiting it waits behind them.
ChatArrive ==
    \E m \in Messages :
        /\ msgPc[m] = "idle"
        /\ m = Len(arrivals) + 1
        /\ arrivals' = Append(arrivals, m)
        /\ IF lockHolder # 0
           THEN /\ msgPc' = [msgPc EXCEPT ![m] = "notify"]
                /\ UNCHANGED <<msgLocal, lockHolder, lockWaiters, claude_session_id,
                               uuidCount, conversation, session_dir, entered, calls>>
           ELSE IF lockWaiters = << >>
           THEN Enter(m) /\ UNCHANGED lockWaiters
           ELSE /\ msgPc' = [msgPc EXCEPT ![m] = "waiting"]
                /\ lockWaiters' = Append(lockWaiters, m)
                /\ UNCHANGED <<msgLocal, lockHolder, claude_session_id, uuidCount,
                               conversation, session_dir, entered, calls>>
        /\ UNCHANGED <<now, stop_event, cronVars, hbVars, botPc, fnIn, fnOut, regVars, raceVars>>

\* Lines 615-619: the reply has been sent; the handler goes on to
\* `async with lock`.
ChatQueue ==
    \E m \in Messages :
        /\ msgPc[m] = "notify"
        /\ IF lockHolder = 0 /\ lockWaiters = << >>
           THEN Enter(m) /\ UNCHANGED lockWaiters
           ELSE /\ msgPc' = [msgPc EXCEPT ![m] = "waiting"]
                /\ lockWaiters' = Append(lockWaiters, m)
                /\ UNCHANGED <<msgLocal, lockHolder, claude_session_id, uuidCount,
                               conversation, session_dir, entered, calls>>
        /\ UNCHANGED <<now, stop_event, cronVars, hbVars, botPc, fnIn, fnOut, regVars, raceVars, arrivals>>

\* asyncio.Lock: the release wakes the first waiter, which takes the lock
\* when it runs.
ChatWake ==
    /\ lockHolder = 0
    /\ lockWaiters # << >>
    /\ Enter(Head(lockWaiters))
    /\ lockWaiters' = Tail(lockWaiters)
    /\ UNCHANGED <<now, stop_event, cronVars, hbVars, botPc, fnIn, fnOut, regVars, raceVars, arrivals>>

\* Lines 545-602 and 631-656: the Executor call of the handler ends.  The
\* RuntimeError of a resumed call clears the stored id, stores a new one and
\* calls again without resume; everything else ends the handler: the
\* assistant entry is written and the lock is released.  A write into a
\* session directory that /resetall has removed raises FileNotFoundError,
\* which ends the handler too.
ChatCallDone ==
    \E m \in Messages, outcome \in ExecOutcomes :
        LET ended == [calls EXCEPT ![Len(calls)].outcome = outcome]
            text == CASE outcome = "ok" -> "response"
                      [] outcome = "Cancelled" -> "cancelled"
                      [] outcome = "Timeout" -> "timeout"
                      [] OTHER -> "error"
        IN
        /\ msgPc[m] = "call"
        /\ IF ShouldRetry(outcome, msgLocal[m].resume_session, msgLocal[m].attempt)
           THEN IF session_dir
                THEN /\ claude_session_id' = uuidCount + 1
                     /\ uuidCount' = uuidCount + 1
                     /\ msgLocal' = [msgLocal EXCEPT ![m].attempt = 2]
                     /\ calls' = Append(ended, [msg |-> m, id |-> uuidCount + 1,
                                                resume |-> FALSE, outcome |-> "running"])
                     /\ UNCHANGED <<msgPc, lockHolder, conversation>>
                ELSE /\ msgPc' = [msgPc EXCEPT ![m] = "raised"]
                     /\ lockHolder' = 0
                     /\ calls' = ended
                     /\ UNCHANGED <<claude_session_id, uuidCount, msgLocal, conversation>>
           ELSE /\ calls' = ended
                /\ lockHolder' = 0
                /\ IF HandlerCatches(outcome) /\ session_dir
                   THEN /\ conversation' = Append(conversation,
                                [role |-> "assistant", msg |-> m, text |-> text])
                        /\ msgPc' = [msgPc EXCEPT ![m] = "done"]
                   ELSE /\ msgPc' = [msgPc EXCEPT ![m] = "raised"]
                        /\ UNCHANGED conversation
                /\ UNCHANGED <<claude_session_id, uuidCount, msgLocal>>
        /\ UNCHANGED <<now, stop_event, cronVars, hbVars, botPc, fnIn, fnOut, regVars, raceVars,
                       lockWaiters, session_dir, arrivals, entered>>

\* Lines 139-155 of handlers.py, 110-122 of session.py: /reset deletes the
\* conversation files and the stored id, /resetall the session directory.
\* Neither takes the lock of the chat.
ChatReset ==
    \E all \in BOOLEAN :
        /\ session_dir
        /\ conversation' = << >>
        /\ claude_session_id' = 0
        /\ session_dir' = ~all
        /\ UNCHANGED <<now, stop_event, cronVars, hbVars, botPc, fnIn, fnOut, regVars, raceVars,
                       msgPc, msgLocal, lockHolder, lockWaiters, uuidCount,
                       arrivals, entered, calls>>

InitChat ==
    /\ InitIdle
    /\ fnIn = NoCall
    /\ fnOut = NoCall

NextChat ==
    \/ ChatArrive
    \/ ChatQueue
    \/ ChatWake
    \/ ChatCallDone
    \/ ChatReset

SpecChat == InitChat /\ [][NextChat]_vars

----------------------------------------------------------------------------
(* claude_runner.py: the registry of running processes, for the calls made
   with one session key *)

\* The entry removed only when the call returns.
Unregisters_OnReturnOnly(outcome) == outcome = "ok"

\* Lines 153-155 and 391-393: unregister_process is in the `finally` of the
\* try around communicate, so it runs however the process ended.
Unregisters(outcome) ==
    outcome \in {"ok", "ProcessFailure", "Timeout", "Cancelled"}

\* Lines 46-49: the registered process has no returncode yet.
is_process_running ==
    running_processes # 0 /\ procs[running_processes] = "running"

\* Lines 135-147 and 320-384: the subprocess is created and registered
\* under the key, replacing what was registered; the call awaits its end.
RegStart ==
    \E c \in Calls :
        /\ regPc[c] = "idle"
        /\ \A d \in Calls : d < c => regPc[d] # "idle"
        /\ procs' = [procs EXCEPT ![c] = "running"]
        /\ running_processes' = c
        /\ regPc' = [regPc EXCEPT ![c] = "communicate"]
        /\ UNCHANGED <<now, stop_event, cronVars, hbVars, botPc, fnIn, fnOut,
                       chatVars, raceVars>>

\* The process ends by itself with exit code 0 or another one, or
\* wait_for runs out and the call kills it (lines 148-151, 385-389).
ProcExit ==
    \E c \in Calls, outcome \in {"ok", "ProcessFailure", "Timeout"} :
        /\ procs[c] = "running"
        /\ procs' = [procs EXCEPT ![c] = outcome]
        /\ UNCHANGED <<now, stop_event, cronVars, hbVars, botPc, fnIn, fnOut,
                       chatVars, raceVars, running_processes, regPc>>

\* Lines 33-43: cancel_process kills the registered process when it has no
\* returncode and tells whether it did; the process ends with -9.
RegCancel ==
    /\ procs' = IF is_process_running
                THEN [procs EXCEPT ![running_processes] = "Cancelled"]
                ELSE procs
    /\ fnOut' = [fn |-> "cancel_process", value |-> is_process_running]
    /\ UNCHANGED <<now, stop_event, cronVars, hbVars, botPc, fnIn,
                   chatVars, raceVars, running_processes, regPc>>

\* Lines 153-165 and 391-411: the call resumes after the end of its
\* process, pops the key from the registry and returns or raises.
RegFinish ==
    \E c \in Calls :
        /\ regPc[c] = "communicate"
        /\ procs[c] \notin {"none", "running"}
        /\ running_processes' = IF Unregisters(procs[c]) THEN 0 ELSE running_processes
        /\ regPc' = [regPc EXCEPT ![c] = IF procs[c] = "ok" THEN "returned" ELSE "raised"]
        /\ UNCHANGED <<now, stop_event, cronVars, hbVars, botPc, fnIn, fnOut,
                       chatVars, raceVars, procs>>

NextRegistry ==
    \/ RegStart
    \/ ProcExit
    \/ RegCancel
    \/ RegFinish

SpecRegistry == InitChat /\ [][NextRegistry]_vars

----------------------------------------------------------------------------
(* cron.py: the store operations of two processes on one cron.yaml, each a
   load_cron_config, a change of the loaded list and a save_cron_config *)

\* The operations a process can begin on the stored list: the command
\* line adds, removes, enables and disables; the cron loop removes or
\* disables a one-shot job it has dispatched (lines 396-402).
StoreOps(p, seq) ==
    IF p = "cli"
    THEN { [op |-> "add", name |-> job.name, job |-> job, enabled |-> TRUE] : job \in NewJobs }
         \cup { [op |-> "remove", name |-> n, job |-> NoCall, enabled |-> FALSE] : n \in Names }
         \cup { [op |-> "set_enabled", name |-> n, job |-> NoCall, enabled |-> e] :
                    n \in Names, e \in BOOLEAN }
    ELSE { [op |-> IF seq[i].delete_after_run THEN "remove" ELSE "set_enabled",
            name |-> seq[i].name, job |-> NoCall, enabled |-> FALSE] :
               i \in { k \in DOMAIN seq : seq[k].enabled /\ seq[k].at.kind # "absent" } }

\* Lines 80-146: what the operation makes of the list it loaded, whether it
\* saves it, and what it returns (for add_cron_job: that it did not raise).
ApplyStoreOp(o, loaded, t) ==
    CASE o.op = "add" ->
            LET taken == \E i \in DOMAIN loaded : loaded[i].name = o.name
            IN  [saved |-> ~taken, value |-> ~taken,
                 config |-> add_cron_job(loaded, o.job, t)]
      [] o.op = "remove" ->
            LET kept == remove_cron_job(loaded, o.name)
            IN  [saved |-> Len(kept) # Len(loaded), value |-> Len(kept) # Len(loaded),
                 config |-> kept]
      [] OTHER ->
            [saved |-> IndexOf(loaded, o.name) # 0, value |-> IndexOf(loaded, o.name) # 0,
             config |-> IF o.enabled THEN enable_cron_job(loaded, o.name)
                        ELSE disable_cron_job(loaded, o.name)]

\* load_cron_config at the start of an operation of process p.
RaceLoad ==
    \E p \in Procs :
        /\ pending[p].op = "none"
        /\ Len(opLog) + Cardinality({q \in Procs : pending[q].op # "none"}) < MaxOps
        /\ \E o \in StoreOps(p, store) :
              pending' = [pending EXCEPT ![p] = [op |-> o.op, name |-> o.name, job |-> o.job,
                                                 enabled |-> o.enabled, loaded |-> store]]
        /\ UNCHANGED <<now, stop_event, cronVars, hbVars, botPc, fnIn, fnOut,
                       chatVars, regVars, opLog>>

\* The rest of the operation of process p: the change, save_cron_config
\* where the code reaches it, and the return.
RaceSave ==
    \E p \in Procs :
        /\ pending[p].op # "none"
        /\ LET result == ApplyStoreOp(pending[p], pending[p].loaded, now)
           IN  /\ store' = IF result.saved THEN result.config ELSE store
               /\ opLog' = Append(opLog, [proc |-> p, op |-> pending[p].op,
                                          name |-> pending[p].name,
                                          enabled |-> pending[p].enabled,
                                          value |-> result.value])
        /\ pending' = [pending EXCEPT ![p] = [op |-> "none"]]
        /\ UNCHANGED <<now, stop_event, jobs, idx, cronPc, cycleStart, last_run_times,
                       cronWaitStart, inFlight, cronFires, oneShotFires, lastStep,
                       hbVars, botPc, fnIn, fnOut, chatVars, regVars>>

NextRace ==
    \/ RaceLoad
    \/ RaceSave

SpecRace == InitChat /\ [][NextRace]_vars

----------------------------------------------------------------------------
(* cron.py: the cron loop on a cron.yaml that holds a malformed job *)

\* Stored jobs the command line would not have written: without a name,
\* with neither `at` nor `schedule`, with a schedule that is no cron
\* expression, with an `at` that is no timestamp, as a string and as the
\* datetime YAML makes of an unquoted timestamp.
MalformedJobs ==
    { Job("", TRUE, AtAbsent, EveryMinute, "", FALSE),
      Job("", TRUE, AtIso(0), SchedAbsent, "", TRUE),
      Job("a", TRUE, AtAbsent, SchedAbsent, "", FALSE),
      Job("a", TRUE, AtAbsent, SchedInvalid, "", FALSE),
      Job("a", TRUE, AtGarbage, SchedAbsent, "", TRUE),
      Job("a", TRUE, AtGarbage, SchedAbsent, "", FALSE),
      Job("a", TRUE, AtDatetime, SchedAbsent, "", FALSE) }

\* Lines 345-365 and 151-180: the job has no name, or no trigger the
\* scheduler can read.
IsMalformed(job) ==
    \/ job.name = ""
    \/ job.at.kind \in {"garbage", "datetime"}
    \/ job.at.kind = "absent" /\ job.schedule.kind \in {"absent", "invalid"}

\* A running cron loop whose store holds a malformed job before or after
\* the job b that runs every minute.
InitMalformed ==
    /\ now = 0
    /\ stop_event = FALSE
    /\ InitAux("running")
    /\ InitCron("top", UNION { { <<m, Job("b", TRUE, AtAbsent, EveryMinute, "", FALSE)>>,
                                 <<Job("b", TRUE, AtAbsent, EveryMinute, "", FALSE), m>> } :
                               m \in MalformedJobs })
    /\ InitHeartbeat("off", {HbConfig("false", IntOf(1), Win(0, 1))})

SpecMalformed == InitMalformed /\ [][NextLive]_vars

----------------------------------------------------------------------------
(* Properties of the scheduling loops *)

Stored(n) == IndexOf(store, n) # 0
StoredJob(n) == store[IndexOf(store, n)]

\* In minute m the store holds the enabled cron job n, its schedule matches
\* the minute, and a cycle of the loop can still begin within the time the
\* model covers.
CronDue(n, m) ==
    /\ now \div TicksPerMinute = m
    /\ now < MaxTime \/ cronPc = "top"
    /\ Stored(n)
    /\ StoredJob(n).enabled
    /\ StoredJob(n).at.kind = "absent"
    /\ StoredJob(n).schedule.kind = "cron"
    /\ ScheduleMatches(StoredJob(n), InstantOf(now))

IsJobStep == cronPc = "eval" /\ (idx' # idx \/ cronPc' # "eval")

\* C1: an enabled cron job is dispatched at most once per distinct UTC
\* minute: no job name has two cron dispatches in the minute of its latest
\* dispatch (the clock never goes back, so this covers every minute).
C1_OncePerMinute == \A n \in Names : cronFires[n].count <= 1

\* C1 witness: a cycle in the minute of a cron dispatch found the schedule
\* matching and was suppressed by the FireGuard record.
C1_Witness ==
    /\ lastStep.op = "guarded_schedule"
    /\ cronFires[lastStep.name].count = 1
    /\ cronFires[lastStep.name].minute = now \div TicksPerMinute
    /\ last_run_times[lastStep.name] = TruncMinute(now)

\* C2: a cycle that loaded an enabled one-shot job whose `at` had passed
\* ends with that job dispatched (a FireGuard record under its name), and no
\* name is dispatched as a one-shot more than once.
C2_OneShotExactlyOnce ==
    [][ /\ (cronPc = "eval" /\ cronPc' = "wait") =>
            \A i \in DOMAIN jobs :
                (jobs[i].enabled /\ jobs[i].at.kind = "iso" /\ jobs[i].at.t <= cycleStart)
                    => last_run_times'[jobs[i].name] # None
        /\ \A n \in Names : oneShotFires'[n] <= 1 ]_vars

\* C3: the step that dispatches a one-shot job also applies its post-fire
\* policy to the store, while the execution it started is still running:
\* the job is gone with delete_after_run, otherwise stored disabled.
C3_PostFireSameCycle ==
    [][ \A n \in Names :
          oneShotFires'[n] > oneShotFires[n] =>
            /\ IsJobStep /\ jobs[idx].name = n
            /\ inFlight'[n] = inFlight[n] + 1
            /\ IF jobs[idx].delete_after_run
               THEN ~(\E i \in DOMAIN store' : store'[i].name = n)
               ELSE /\ \E i \in DOMAIN store' : store'[i].name = n /\ ~store'[i].enabled
                    /\ Len(store') = Len(store) ]_vars

\* C3 witness: in the middle of a cycle a one-shot job has just been
\* dispatched, its execution runs, and it is stored disabled.
C3_Witness ==
    /\ lastStep.op = "at"
    /\ cronPc = "eval"
    /\ inFlight[lastStep.name] > 0
    /\ Stored(lastStep.name)
    /\ ~StoredJob(lastStep.name).enabled

\* C4: no step dispatches a job that is stored with enabled = false or
\* writes a FireGuard record for it.
C4_DisabledNeverFires ==
    [][ \A n \in Names :
          (Stored(n) /\ ~StoredJob(n).enabled) =>
            /\ inFlight'[n] <= inFlight[n]
            /\ last_run_times'[n] = last_run_times[n]
            /\ cronFires'[n] = cronFires[n]
            /\ oneShotFires'[n] = oneShotFires[n] ]_vars

\* C4 witness: the loop has just passed over a disabled one-shot job whose
\* `at` has passed and that has no FireGuard record.
C4_Witness ==
    /\ lastStep.op = "disabled"
    /\ Stored(lastStep.name)
    /\ ~StoredJob(lastStep.name).enabled
    /\ StoredJob(lastStep.name).at.kind = "iso"
    /\ StoredJob(lastStep.name).at.t <= now
    /\ last_run_times[lastStep.name] = None

\* C5: with the stop signal set, a waiting loop can leave its wait at once,
\* whatever the time, it leaves it only to Stopped, it stays there, and
\* nothing is evaluated or dispatched: for the cron and the heartbeat loop.
C5_StopEndsWait ==
    /\ [](stop_event /\ cronPc = "wait" => ENABLED CronWait)
    /\ [](stop_event /\ hbPc = "wait" => ENABLED HbWait)
    /\ [][ /\ (stop_event /\ cronPc \in {"wait", "stopped"}) =>
                /\ cronPc' \in {"wait", "stopped"}
                /\ cronPc = "stopped" => cronPc' = "stopped"
                /\ last_run_times' = last_run_times
                /\ \A n \in Names : inFlight'[n] <= inFlight[n]
           /\ (stop_event /\ hbPc \in {"wait", "stopped"}) =>
                /\ hbPc' \in {"wait", "stopped"}
                /\ hbPc = "stopped" => hbPc' = "stopped"
                /\ hbRuns' = hbRuns ]_vars

\* C5 witness: both loops were stopped out of a wait whose interval had not
\* elapsed, after each had dispatched.
C5_Witness ==
    /\ cronPc = "stopped" /\ lastStep.op = "stopped"
    /\ now < cronWaitStart + CRON_CHECK_INTERVAL_TICKS
    /\ hbPc = "stopped" /\ hbLast = "stopped"
    /\ now < hbWaitStart + interval_seconds.v
    /\ hbRuns > 0
    /\ \E n \in Names : last_run_times[n] # None

\* C6: an exception raised by one job is contained to that job: after every
\* job step but the last of the list the loop is at the next job.
C6_ErrorContained ==
    [][ (IsJobStep /\ idx < Len(jobs)) => (cronPc' = "eval" /\ idx' = idx + 1) ]_vars

\* C7: while the stop signal is not set, a step of the heartbeat loop that
\* reads the configuration and decides, or that waits, leaves the loop
\* running, and so does every step of the cron loop.
C7_LoopNeverDies ==
    [][ /\ (~stop_event /\ hbPc \in {"top", "wait"}) => hbPc' \in {"top", "exec", "wait"}
        /\ (~stop_event /\ cronPc \in {"top", "eval", "wait"})
              => cronPc' \in {"top", "eval", "wait"} ]_vars

\* C8: after a failure of the execution (Timeout, ProcessFailure, Cancelled)
\* the heartbeat loop is still running: with a well-formed interval it is in
\* its wait.
C8_ExecutorFailureContained ==
    [][ ( /\ hbPc = "exec"
          /\ hbLast' \in {"Timeout", "ProcessFailure", "Cancelled"}
          /\ current_heartbeat_config.interval_minutes.kind = "int" )
            => hbPc' = "wait" ]_vars

\* C9: the step that dispatches a job leaves the cron loop at the position
\* that follows the job (the next job, or the wait), with the execution in
\* flight.
C9_DispatchNonBlocking ==
    [][ \A n \in Names :
          inFlight'[n] > inFlight[n] =>
            /\ IsJobStep
            /\ cronPc' = IF idx = Len(jobs) THEN "wait" ELSE "eval"
            /\ cronPc' = "eval" => idx' = idx + 1 ]_vars

\* C9 witness: the loop waits while two executions of one cron job, from
\* successive minutes, are in flight.
C9_Witness ==
    /\ cronPc = "wait"
    /\ \E n \in Names :
         /\ inFlight[n] = 2
         /\ oneShotFires[n] = 0
         /\ cronFires[n].minute > 0

C11_BothLoopsPerBot ==
    /\ botPc = "running" =>
          /\ cronPc \in {"top", "eval", "wait", "stopped"}
          /\ hbPc \in {"top", "exec", "wait", "stopped"}
    /\ botPc = "stopped" =>
          /\ cronPc \notin {"top", "eval", "wait"}
          /\ hbPc \notin {"top", "exec", "wait"}

\* C12: every cycle loads the list that is in the store at its start and
\* evaluates every job of it, so a job added or enabled before the cycle is
\* evaluated in it; and a dispatch is of a job that the store holds enabled
\* at that cycle, so a job removed or disabled is not dispatched later.
C12_ReloadEachCycle ==
    [][ /\ (cronPc = "top" /\ cronPc' \in {"eval", "wait"}) => jobs' = store
        /\ (cronPc = "eval" /\ cronPc' = "wait") => idx = Len(jobs)
        /\ \A n \in Names :
              inFlight'[n] > inFlight[n] => (Stored(n) /\ StoredJob(n).enabled) ]_vars

\* A step of the heartbeat loop that reads the configuration and decides.
IsHbCycle == hbPc = "top" /\ ~stop_event /\ hbPc' # "top"

\* C13: a cycle that reads a stored section with an active_hours window
\* starts the execution exactly when the section has enabled = true and the
\* local minute is inside the window; no FireGuard record is written, and
\* none is consulted: the decision is a function of the section and the time.
C13_EnabledAndInWindow ==
    [][ (IsHbCycle /\ hbStore # HbMissing /\ hbStore.active_hours.kind = "window") =>
          /\ (hbRuns' = hbRuns + 1) <=>
                (/\ hbStore.enabled = "true"
                 /\ is_within_active_hours(hbStore.active_hours, LocalMinutes(now)))
          /\ hbRuns' \in {hbRuns, hbRuns + 1}
          /\ last_run_times' = last_run_times ]_vars

\* C13 witness: a second execution has been started, one interval after the
\* first, on the enabled flag and the window of the stored section.
C13_Witness ==
    /\ hbPc = "exec" /\ hbLast = "execute" /\ hbRuns = 2
    /\ hbStore.enabled = "true" /\ hbStore.active_hours.kind = "window"

\* C14: a cycle decides on the stored section alone: with bot.yaml present,
\* the execution is started exactly when the stored section is enabled and
\* the local minute is inside its window, the window of a section without
\* active_hours being the default one; nothing read at the start of the loop
\* takes part.
C14_StoredConfigOnly ==
    [][ (IsHbCycle /\ hbStore # HbMissing /\ hbStore.active_hours.kind # "malformed") =>
          ( (hbRuns' = hbRuns + 1) <=>
              (/\ hbStore.enabled = "true"
               /\ is_within_active_hours(
                      IF hbStore.active_hours.kind = "absent"
                      THEN DefaultActiveHours ELSE hbStore.active_hours,
                      LocalMinutes(now))) ) ]_vars

\* C15: the wait that follows a cycle lasts the interval of the section the
\* cycle read (a number, or the default when the key is absent), whatever
\* the cycle did.
C15_WaitIsStoredInterval ==
    [][ /\ (IsHbCycle /\ hbPc' = "wait" /\ hbStore # HbMissing
             /\ hbStore.interval_minutes.kind \in {"int", "absent"})
              => interval_seconds' = Seconds(hbStore.interval_minutes)
        /\ (hbPc = "exec" /\ hbPc' = "wait"
             /\ current_heartbeat_config.interval_minutes.kind \in {"int", "absent"})
              => interval_seconds' = Seconds(current_heartbeat_config.interval_minutes)
      ]_vars

\* The window of 2 clock times holds the third.
ActiveAt(sh, sm, eh, em, nh, nm) ==
    is_within_active_hours(Win(sh * 60 + sm, eh * 60 + em), nh * 60 + nm)

\* C16: for start, end and now in minutes of the day, the result is
\* start <= now <= end when start <= end, and now >= start or now <= end
\* when start > end; 22:00-06:00 is active at 23:30 and at 03:00 and not
\* at 12:00, 07:00-23:00 is active at 07:00 and at 23:00.
C16_ActiveHours ==
    /\ fnOut # NoCall =>
          LET s == fnIn.start.hour * 60 + fnIn.start.minute
              e == fnIn.end.hour * 60 + fnIn.end.minute
              n == fnIn.now.hour * 60 + fnIn.now.minute
          IN  IF s <= e
              THEN fnOut.value <=> (s <= n /\ n <= e)
              ELSE fnOut.value <=> (n >= s \/ n <= e)
    /\ ActiveAt(22, 0, 6, 0, 23, 30) /\ ActiveAt(22, 0, 6, 0, 3, 0)
    /\ ~ActiveAt(22, 0, 6, 0, 12, 0)
    /\ ActiveAt(7, 0, 23, 0, 7, 0) /\ ActiveAt(7, 0, 23, 0, 23, 0)

\* C16 witness: the overnight window 22:00-06:00 evaluated at 03:00.
C16_Witness ==
    /\ fnOut # NoCall /\ fnOut.value
    /\ fnIn.start = ClockOf(22 * 60) /\ fnIn.end = ClockOf(6 * 60)
    /\ fnIn.now = ClockOf(3 * 60)

\* C17: with start = end the result is true only at that minute of the day.
C17_EqualIsSingleInstant ==
    (fnOut # NoCall /\ fnIn.start = fnIn.end) => (fnOut.value <=> fnIn.now = fnIn.start)

\* C17 witness: the window 07:00-07:00 evaluated at 12:00 is not active.
C17_Witness ==
    /\ fnOut # NoCall /\ ~fnOut.value
    /\ fnIn.start = ClockOf(7 * 60) /\ fnIn.end = ClockOf(7 * 60)
    /\ fnIn.now = ClockOf(12 * 60)

\* C18: "0 6 * * *" in Asia/Seoul matches exactly in the minute 21:00 UTC
\* (06:00 in Korea, so not at 06:00 UTC), next_run_time is 06:00 in the zone,
\* that is 21:00 UTC; and a match of an expression in one zone is a match
\* in every other zone at the instant shifted by the difference of the
\* offsets.
C18_MatchInJobZone ==
    fnOut # NoCall =>
      LET job == fnIn.job
          t == fnIn.at
      IN  /\ (job.schedule = DailyAt(6, 0) /\ job.timezone = "Asia/Seoul") =>
                /\ fnOut.value <=> ((t % DaySeconds) \div 60 = 21 * 60)
                /\ fnOut.next.tzinfo = "Asia/Seoul"
                /\ fnOut.next.local % DaySeconds = 6 * 3600
                /\ (fnOut.next.local - 9 * 3600) % DaySeconds = 21 * 3600
                /\ fnOut.next.local - 9 * 3600 > t
          /\ \A z \in KnownZones :
                fnOut.value <=>
                  ScheduleMatches([job EXCEPT !.timezone = z],
                      t + (UtcOffset(resolve_job_timezone(job)) - UtcOffset(z)) * 60)

\* C18 witness: "0 6 * * *" in Asia/Seoul matched at 21:00:30 UTC.
C18_Witness ==
    /\ fnOut # NoCall /\ fnOut.value
    /\ fnIn.job.schedule = DailyAt(6, 0) /\ fnIn.job.timezone = "Asia/Seoul"
    /\ fnIn.at % DaySeconds = 21 * 3600 + 30

\* C19: a job whose timezone is absent, empty or unknown resolves to UTC
\* and is matched, and its next run computed, exactly like the same job
\* with timezone UTC: on its cron fields at the UTC time.
C19_UnknownZoneIsUtc ==
    (fnOut # NoCall /\ fnIn.job.timezone \notin KnownZones) =>
      LET utc == [fnIn.job EXCEPT !.timezone = "UTC"]
      IN  /\ resolve_job_timezone(fnIn.job) = "UTC"
          /\ fnOut.next.tzinfo = "UTC"
          /\ fnOut.value = ScheduleMatches(utc, fnIn.at)
          /\ fnOut.next = next_run_time(utc, fnIn.at)
          /\ fnOut.value <=> DirectMatch(fnIn.job.schedule, fnIn.at)

\* C19 witness: "0 6 * * *" with timezone Not/AZone matched at 06:00 UTC.
C19_Witness ==
    /\ fnOut # NoCall /\ fnOut.value
    /\ fnIn.job.schedule = DailyAt(6, 0) /\ fnIn.job.timezone = "Not/AZone"
    /\ (fnIn.at % DaySeconds) \div 60 = 6 * 60

\* C20: the scheduler's match through the next fire time is the direct
\* match of the fields of the minute in the job's zone, and it is the same
\* at every second of the minute.
C20_MatchIsFieldMatch ==
    fnOut # NoCall =>
      LET job == fnIn.job
          local == fnIn.at + UtcOffset(resolve_job_timezone(job)) * 60
      IN  /\ fnOut.value <=> DirectMatch(job.schedule, local)
          /\ \A sec \in 0 .. 59 :
                ScheduleMatches(job, (fnIn.at \div 60) * 60 + sec) = fnOut.value

\* C20 witness: "*/15 9-17 * * 1-5" matched at second 59 of a minute.
C20_Witness ==
    /\ fnOut # NoCall /\ fnOut.value
    /\ fnIn.job.schedule.minute = Field(0, 59, 15)
    /\ fnIn.job.schedule.weekday = Field(1, 5, 1)
    /\ fnIn.at % 60 = 59

\* C21: a relative `at` is resolved once, by add_cron_job, and stored as an
\* absolute instant: no stored job has a relative `at`, no step changes the
\* `at` of a job that stays in the store, and no evaluation of the loop
\* works on a relative `at`.
C21_RelativeResolvedOnce ==
    /\ [](\A i \in DOMAIN store : store[i].at.kind # "relative")
    /\ [][/\ \A i \in DOMAIN store : \A k \in DOMAIN store' :
                store'[k].name = store[i].name => store'[k].at = store[i].at
          /\ IsJobStep => jobs[idx].at.kind # "relative"]_vars

\* C21: the job added with "1m" at the start is under evaluation at or after
\* the instant it was stored with.
C21_Witness ==
    /\ cronPc = "eval"
    /\ idx <= Len(jobs)
    /\ jobs[idx].at = AtIso(TicksPerMinute)
    /\ jobs[idx].enabled
    /\ now >= TicksPerMinute

\* C22: a one-shot job is dispatched only in a cycle whose UTC time is at or
\* after the instant of its `at`.
C22_NeverEarly ==
    [][\A n \in Names :
         oneShotFires'[n] > oneShotFires[n] =>
            /\ cronPc = "eval"
            /\ jobs[idx].name = n
            /\ jobs[idx].at.kind = "iso"
            /\ jobs[idx].at.t <= now
            /\ jobs[idx].at.t <= now']_vars

\* C22: an enabled one-shot job was evaluated before its instant and was
\* not dispatched.
C22_Witness ==
    /\ lastStep = [op |-> "skip", name |-> "b"]
    /\ Stored("b")
    /\ StoredJob("b").enabled
    /\ StoredJob("b").at.kind = "iso"
    /\ StoredJob("b").at.t > now
    /\ oneShotFires["b"] = 0

\* C23: once last_run_times holds a record under a name, the loop dispatches
\* no one-shot job of that name.
C23_GuardByPresence ==
    [][\A n \in Names :
         last_run_times[n] # None => oneShotFires'[n] = oneShotFires[n]]_vars

\* C23: a due, enabled one-shot job was held back by the record of its name.
C23_Witness ==
    /\ lastStep.op = "guarded_at"
    /\ last_run_times[lastStep.name] # None
    /\ Stored(lastStep.name)
    /\ StoredJob(lastStep.name).enabled

\* C24: job names are unique in the store: add_cron_job with a name that is
\* present raises and leaves the store as it was, and after any sequence of
\* add, remove, enable, disable and post-fire steps from the empty store no
\* two stored jobs share a name.
C24_UniqueNames ==
    /\ [](\A i \in DOMAIN store : \A k \in DOMAIN store :
            store[i].name = store[k].name => i = k)
    /\ [][(fnOut'.fn = "add_cron_job" /\ fnOut'.raised) => store' = store]_vars

\* C24: an add under a stored name was refused with the store full.
C24_Witness ==
    /\ fnOut.fn = "add_cron_job"
    /\ fnOut.raised
    /\ Len(store) = 2
    /\ \E i \in DOMAIN store : store[i].name = fnOut.name

\* C25: no job with a schedule that is no cron expression, or with an `at`
\* that is neither a timestamp nor a duration, is ever stored by add.
C25_InvalidRejected ==
    \A i \in DOMAIN store :
        store[i].schedule.kind # "invalid" /\ store[i].at.kind # "garbage"

\* C26: remove, enable and disable return true exactly when the name is
\* stored; they leave the store as it was when it is not; enable and disable
\* change only the enabled flag of that job, remove deletes only that job.
C26_StoreFrame ==
    [][LET n == fnOut'.name
           exists == \E i \in DOMAIN store : store[i].name = n
       IN  /\ fnOut'.fn \in {"remove_cron_job", "set_enabled"} =>
                 /\ fnOut'.value = exists
                 /\ ~exists => store' = store
           /\ (fnOut'.fn = "remove_cron_job" /\ exists) =>
                 \E i \in DOMAIN store :
                    /\ store[i].name = n
                    /\ store' = SubSeq(store, 1, i - 1) \o SubSeq(store, i + 1, Len(store))
           /\ (fnOut'.fn = "set_enabled" /\ exists) =>
                 \E i \in DOMAIN store :
                    /\ store[i].name = n
                    /\ store' = [store EXCEPT ![i].enabled = fnOut'.enabled]]_vars

\* C26: remove returned true and left the other job, and only it, stored.
C26_Witness ==
    /\ fnOut.fn = "remove_cron_job"
    /\ fnOut.value
    /\ Len(store) = 1
    /\ store[1].name # fnOut.name

\* C27: when run_claude fails in a cron firing, with Timeout, ProcessFailure
\* or Cancelled, execute_cron_job sends the failure text to every recipient
\* (allowed_users, or the session chat ids when there are none).
C27_FailureDelivered ==
    (fnOut.fn = "execute_cron_job" /\ fnIn.outcome # "ok") =>
        LET recipients == IF fnIn.allowed_users # {} THEN fnIn.allowed_users
                          ELSE fnIn.session_chat_ids
        IN  /\ ~fnOut.result.raised
            /\ fnOut.result.sent = recipients
            /\ recipients # {} => fnOut.result.text = "failure"

\* C28: execute_heartbeat sends nothing when the response contains the
\* marker, sends the response to every user of allowed_users when it does
\* not, and sends the failure text in the same way when run_claude failed.
C28_MarkerSuppresses ==
    (fnOut.fn = "execute_heartbeat" /\ fnIn.heartbeat_md) =>
        /\ (fnIn.outcome = "ok" /\ fnIn.marker) => fnOut.result.sent = {}
        /\ (fnIn.outcome = "ok" /\ ~fnIn.marker) =>
              /\ fnOut.result.sent = fnIn.allowed_users
              /\ fnIn.allowed_users # {} => fnOut.result.text = "response"
        /\ (fnIn.outcome # "ok" /\ ~fnIn.marker) =>
              /\ ~fnOut.result.raised
              /\ fnOut.result.sent = fnIn.allowed_users
              /\ fnIn.allowed_users # {} => fnOut.result.text = "failure"

\* C29: with allowed_users empty and no marker in the text, execute_heartbeat
\* sends the text to the chat ids of the session directories.
C29_SessionFallback ==
    (/\ fnOut.fn = "execute_heartbeat"
     /\ fnIn.heartbeat_md
     /\ fnIn.allowed_users = {}
     /\ ~fnIn.marker
     /\ ~fnOut.result.raised) =>
        fnOut.result.sent = fnIn.session_chat_ids

C31_IntervalIsOnlyGuard ==
    [][ /\ hbRuns' > hbRuns =>
              (hbPc = "top" /\ hbLast \in {"init", "timeout"} /\ hbPc' = "exec")
        /\ hbPc = "exec" => hbPc' \in {"exec", "wait", "dead"}
        /\ (hbPc = "wait" /\ hbPc' = "top") =>
              (now >= hbWaitStart + interval_seconds.v /\ hbLast' = "timeout")
        /\ (hbPc = "wait" /\ hbPc' = "wait") => hbWaitStart' = hbWaitStart
        /\ (/\ IsHbCycle
            /\ CurrentConfig.enabled = "true"
            /\ HbDecision(CurrentConfig, active_hours, LocalMinutes(now)) # "raise"
            /\ is_within_active_hours(
                   IF CurrentConfig.active_hours.kind = "absent"
                   THEN active_hours ELSE CurrentConfig.active_hours,
                   LocalMinutes(now)))
              => hbRuns' = hbRuns + 1 ]_vars

\* C31: the second execution of a loop begins, a full interval after the
\* wait that followed the first began.
C31_Witness ==
    /\ hbRuns = 2
    /\ hbPc = "exec"
    /\ hbLast = "execute"
    /\ now >= interval_seconds.v
    /\ interval_seconds.v >= TicksPerMinute

----------------------------------------------------------------------------
(* Properties of the chat handlers *)

\* The Executor calls made for message m, in order.
CallsOf(m) == SelectSeq(calls, LAMBDA c : c.msg = m)

\* C33: a message makes at most two Executor calls; a second call is made
\* only after a call with resume_session = true failed with RuntimeError,
\* and it is made without resume under a session id not used before, which
\* is the one stored at that moment; the end of any other call (a failed
\* non-resume call, a failed retry, a timeout, a cancellation, a success)
\* ends the handler without a further call; and a resumed call that fails
\* with RuntimeError while the session directory exists is followed by the
\* retry.
C33_RetryAtMostOnce ==
    /\ [](\A m \in Messages :
            LET cs == CallsOf(m)
            IN  /\ Len(cs) <= 2
                /\ Len(cs) = 2 =>
                      /\ cs[1].resume
                      /\ cs[1].outcome = "ProcessFailure"
                      /\ ~cs[2].resume
                      /\ cs[2].id # cs[1].id)
    /\ [][\A m \in Messages :
            (msgPc[m] = "call" /\ calls' # calls) =>
                LET before == calls[Len(calls)]
                    after == calls'[Len(calls)]
                IN  IF /\ before.resume
                       /\ after.outcome = "ProcessFailure"
                       /\ Len(CallsOf(m)) = 1
                       /\ session_dir
                    THEN /\ Len(calls') = Len(calls) + 1
                         /\ calls'[Len(calls')] =
                                [msg |-> m, id |-> claude_session_id',
                                 resume |-> FALSE, outcome |-> "running"]
                         /\ claude_session_id' # 0
                         /\ \A i \in 1 .. Len(calls) :
                                calls[i].id # claude_session_id'
                         /\ msgPc'[m] = "call"
                    ELSE /\ Len(calls') = Len(calls)
                         /\ msgPc'[m] # "call"]_vars

\* C33: a message whose resumed call failed was retried, the retry failed
\* too and the handler ended.
C33_Witness ==
    \E m \in Messages :
        /\ Len(CallsOf(m)) = 2
        /\ CallsOf(m)[2].outcome = "ProcessFailure"
        /\ msgPc[m] = "done"

\* C34: a handler that enters the locked section while no session id is
\* stored draws an id no call has used, stores it and calls without resume;
\* a handler that enters while an id is stored calls with resume under that
\* id and leaves it stored; /reset and /resetall leave no id stored; and
\* the stored id changes in no other step than these and the retry after a
\* failed resume.
C34_SessionIdLifecycle ==
    [][ /\ entered' # entered =>
              LET call == calls'[Len(calls')]
              IN  /\ Len(calls') = Len(calls) + 1
                  /\ call.msg = entered'[Len(entered')]
                  /\ call.id = claude_session_id'
                  /\ IF claude_session_id = 0
                     THEN /\ ~call.resume
                          /\ claude_session_id' # 0
                          /\ \A i \in 1 .. Len(calls) :
                                 calls[i].id # claude_session_id'
                     ELSE /\ call.resume
                          /\ claude_session_id' = claude_session_id
        /\ (session_dir /\ arrivals' = arrivals /\ calls' = calls /\ msgPc' = msgPc)
              => claude_session_id' = 0
        /\ claude_session_id' # claude_session_id =>
              \/ entered' # entered /\ claude_session_id = 0
              \/ claude_session_id' = 0 /\ calls' = calls
              \/ /\ Len(calls') = Len(calls) + 1
                 /\ calls'[Len(calls)].outcome = "ProcessFailure"
                 /\ calls[Len(calls)].resume ]_vars

\* C34: a first message created a session, a later message resumed it, and
\* after a reset another message started a session of its own.
C34_Witness ==
    \E i, j, k \in 1 .. Len(calls) :
        /\ i < j
        /\ j < k
        /\ ~calls[i].resume
        /\ calls[j].resume
        /\ calls[j].id = calls[i].id
        /\ calls[j].msg # calls[i].msg
        /\ ~calls[k].resume
        /\ calls[k].msg # calls[j].msg
        /\ Len(CallsOf(calls[k].msg)) = 1
        /\ claude_session_id = calls[k].id

\* C35: at most one handler of the chat is inside the locked section, with
\* at most one Executor call in flight, and the handlers enter the locked
\* section in the order in which their messages arrived.
C35_ExclusiveInArrivalOrder ==
    /\ Cardinality({m \in Messages : msgPc[m] = "call"}) <= 1
    /\ \A m \in Messages : msgPc[m] = "call" <=> lockHolder = m
    /\ Cardinality({i \in 1 .. Len(calls) : calls[i].outcome = "running"}) <= 1
    /\ \A i, j \in 1 .. Len(entered) :
           i < j => \E a, b \in 1 .. Len(arrivals) :
                        /\ a < b
                        /\ arrivals[a] = entered[i]
                        /\ arrivals[b] = entered[j]

\* C39: the conversation log of the chat alternates: an assistant entry
\* follows the user entry of the same message (or opens a log that /reset
\* emptied during the call), a user entry is followed by the assistant entry
\* of the same message or is the last entry while the call of its message is
\* in flight; every handler writes one user entry when it enters and, on
\* every outcome of its call, one assistant entry with the text of that
\* outcome when it ends, unless /resetall removed the session directory
\* during the call.
C39_LogAlternates ==
    /\ [](\A i \in 1 .. Len(conversation) :
            LET entry == conversation[i]
            IN  /\ entry.role = "assistant" =>
                      \/ i = 1
                      \/ /\ conversation[i - 1].role = "user"
                         /\ conversation[i - 1].msg = entry.msg
                /\ entry.role = "user" =>
                      IF i = Len(conversation)
                      THEN msgPc[entry.msg] = "call"
                      ELSE /\ conversation[i + 1].role = "assistant"
                           /\ conversation[i + 1].msg = entry.msg)
    /\ [][\A m \in Messages :
            /\ (msgPc[m] # "call" /\ msgPc'[m] = "call") =>
                  /\ Len(conversation') >= 1
                  /\ conversation'[Len(conversation')] =
                         [role |-> "user", msg |-> m, text |-> "message"]
            /\ (msgPc[m] = "call" /\ msgPc'[m] # "call") =>
                  IF session_dir
                  THEN /\ msgPc'[m] = "done"
                       /\ conversation' = Append(conversation,
                              [role |-> "assistant", msg |-> m,
                               text |-> CASE calls'[Len(calls')].outcome = "ok" -> "response"
                                          [] calls'[Len(calls')].outcome = "Cancelled" -> "cancelled"
                                          [] calls'[Len(calls')].outcome = "Timeout" -> "timeout"
                                          [] OTHER -> "error"])
                  ELSE /\ msgPc'[m] = "raised"
                       /\ conversation' = conversation
            /\ (msgPc[m] = "call" /\ msgPc'[m] = "call" /\ session_dir' = session_dir) =>
                  \/ conversation' = conversation
                  \/ conversation' = << >>]_vars

\* C39: the log holds the entries of three handled messages, one of them
\* cancelled, one timed out and one failed.
C39_Witness ==
    /\ Len(conversation) = 6
    /\ \A m \in Messages : msgPc[m] = "done"
    /\ {conversation[2].text, conversation[4].text, conversation[6].text}
           = {"cancelled", "timeout", "error"}

----------------------------------------------------------------------------
(* Properties of the process registry *)

\* C32: a call registers its process under the key when it starts it; the
\* entry of the key changes only when a call starts (to the process of that
\* call) or ends (to none); and whenever no call with the key is in
\* progress, however the calls ended, the key is not in the registry and
\* is_process_running is false.
C32_UnregisteredOnEveryExit ==
    /\ []((\A c \in Calls : regPc[c] # "communicate") =>
              (running_processes = 0 /\ ~is_process_running))
    /\ [][ /\ \A c \in Calls :
                (regPc[c] = "idle" /\ regPc'[c] = "communicate") =>
                    (running_processes' = c /\ procs'[c] = "running")
           /\ running_processes' # running_processes =>
                \E c \in Calls :
                    \/ regPc[c] = "idle" /\ regPc'[c] = "communicate"
                                         /\ running_processes' = c
                    \/ regPc[c] = "communicate" /\ regPc'[c] \in {"returned", "raised"}
                                                /\ running_processes' = 0 ]_vars

\* C32: three calls with the key have ended, by a timeout, by a
\* cancellation and by a non-zero exit code.
C32_Witness ==
    /\ \A c \in Calls : regPc[c] = "raised"
    /\ {procs[c] : c \in Calls} = {"Timeout", "Cancelled", "ProcessFailure"}
    /\ running_processes = 0

\* C36: while a process started under the key by a call in progress is
\* still running, is_process_running is true and cancel_process kills a
\* running process of the key and returns true; and the end of one call
\* leaves the entry of another call in place.
C36_RegistryConsistent ==
    /\ []((\E c \in Calls : regPc[c] = "communicate" /\ procs[c] = "running")
              => is_process_running)
    /\ [][ /\ (/\ fnOut' # fnOut
               /\ fnOut'.fn = "cancel_process"
               /\ \E c \in Calls : procs[c] = "running")
                 => /\ fnOut'.value
                    /\ \E c \in Calls : procs[c] = "running" /\ procs'[c] = "Cancelled"
           /\ \A c \in Calls :
                (/\ regPc[c] = "communicate"
                 /\ regPc'[c] # "communicate"
                 /\ running_processes # c)
                   => running_processes' = running_processes ]_vars

----------------------------------------------------------------------------
(* Properties of the job store under two processes *)

\* C37: when no store operation is in progress, every job whose
\* add_cron_job returned and that no later operation removed is in the
\* store, and the job of every enable or disable that returned true, when
\* no later operation removed, added, enabled or disabled a job of its
\* name, is in the store with that flag.
C37_NoLostUpdate ==
    (\A p \in Procs : pending[p].op = "none") =>
        \A i \in 1 .. Len(opLog) :
            LET o == opLog[i]
                later == { j \in (i + 1) .. Len(opLog) :
                             opLog[j].name = o.name /\ opLog[j].value }
            IN  /\ (/\ o.op = "add"
                    /\ o.value
                    /\ \A j \in later : opLog[j].op # "remove")
                      => IndexOf(store, o.name) # 0
                /\ (o.op = "set_enabled" /\ o.value /\ later = {})
                      => /\ IndexOf(store, o.name) # 0
                         /\ store[IndexOf(store, o.name)].enabled = o.enabled

----------------------------------------------------------------------------
(* Properties of the cron loop on malformed jobs *)

\* C38: the evaluation of a malformed stored job dispatches nothing, leaves
\* the FireGuard records and the store as they are, and is followed by the
\* evaluation of the next job of the cycle.
C38_MalformedSkipped ==
    [][ (IsJobStep /\ idx <= Len(jobs) /\ IsMalformed(jobs[idx])) =>
            /\ inFlight' = inFlight
            /\ cronFires' = cronFires
            /\ oneShotFires' = oneShotFires
            /\ last_run_times' = last_run_times
            /\ store' = store
            /\ idx < Len(jobs) =>
                  (cronPc' = "eval" /\ idx' = idx + 1 /\ jobs' = jobs) ]_vars

====
